---- MODULE Spec2Model ----
(***************************************************************************)
(* Verification model of the weather-temperature trading engine:           *)
(*   - BacktestExecutionManager / ExecutionManager order sweeps,           *)
(*   - LadderStrategy trigger evaluation,                                  *)
(*   - KalshiWSMixin in-memory orderbook maintenance and the WeatherBot    *)
(*     discovery that feeds it.                                            *)
(***************************************************************************)
EXTENDS Integers, Sequences, FiniteSets, TLC

\* ------------------------------------------------------------------------
\* Bounds of the model
\* ------------------------------------------------------------------------
MaxIntents == 2
MaxObs == 3
MaxDiscoveries == 2
MaxMsgs == 3
MaxPublishes == 2
MaxConnects == 2
MaxForwards == 1

\* ------------------------------------------------------------------------
\* Universe of inputs
\* ------------------------------------------------------------------------
NoneVal == "None"

T1 == "KXHIGHCHI-26FEB21-T42"
T2 == "KXHIGHCHI-26FEB22-T41"
T3 == "KXHIGHNY-26FEB21-T42"
T4 == "KXHIGHMIA-26FEB21-T80"
T5 == "KXHIGHCHI-26FEB21-B40.5"
T6 == "KXHIGHCHI-26FEB30-T43"
E1 == "KXHIGHCHI-26FEB21"
E2 == "KXHIGHCHI-26FEB22"
E3 == "KXHIGHNY-26FEB21"
E4 == "KXHIGHMIA-26FEB21"
E6 == "KXHIGHCHI-26FEB30"

Tickers == {T1, T2}

EmptySide == [p \in {} |-> 0]

\* resting bids: price (cents) -> quantity
SideA == (48 :> 2) @@ (47 :> 1)
SideB == (48 :> 1) @@ (3 :> 2)
SideZ == (48 :> 0) @@ (47 :> 2)

EmptyBook == [yes |-> EmptySide, no |-> EmptySide]

\* OrderbookUpdateEvent payloads
UpdateBooks ==
    { [yes |-> SideA, no |-> SideB],
      [yes |-> SideZ, no |-> EmptySide] }

\* OrderbookUpdateEvent payloads replayed to the strategy pipeline
PipeBooks == { [yes |-> SideA, no |-> SideB] }

\* MarketDiscoveryEvent payloads: (market_tickers, market_info)
\* cap_strike is {} when the API omits it (None), else the singleton {strike}
InfoOf(tk) ==
    CASE tk = T1 -> [event_ticker |-> E1, cap_strike |-> {42}]
      [] tk = T2 -> [event_ticker |-> E2, cap_strike |-> {41}]
      [] tk = T3 -> [event_ticker |-> E3, cap_strike |-> {42}]
      [] tk = T4 -> [event_ticker |-> E4, cap_strike |-> {80}]
      [] tk = T6 -> [event_ticker |-> E6, cap_strike |-> {43}]
      [] OTHER   -> [event_ticker |-> E1, cap_strike |-> {}]

InfoMap(tks) == [tk \in tks |-> InfoOf(tk)]

DiscoveryEvents ==
    { [market_tickers |-> <<T1>>, market_info |-> InfoMap({T1})],
      [market_tickers |-> <<T1, T2>>, market_info |-> InfoMap({T1, T2})] }

\* MarketDiscoveryEvent payloads delivered to the strategy: a contract without
\* cap_strike (T5), one of a series the instance does not target (T4), and a
\* rollover to the next day's event
LadderDiscoveryEvents ==
    { [market_tickers |-> <<T1, T5, T4>>, market_info |-> InfoMap({T1, T5, T4})],
      [market_tickers |-> <<T2, T1, T3>>, market_info |-> InfoMap({T2, T1, T3})] }

\* results of resolve_event_tickers + discover_markets seen by WeatherBot
DiscoverResults ==
    { [event_tickers |-> <<>>, market_tickers |-> <<>>, market_info |-> InfoMap({})],
      [event_tickers |-> <<E1>>, market_tickers |-> <<T1, T5>>,
       market_info |-> InfoMap({T1, T5})],
      [event_tickers |-> <<E1, E2>>, market_tickers |-> <<T1, T2>>,
       market_info |-> InfoMap({T1, T2})] }

\* [price, qty] lists carried by Kalshi WS messages
LevelLists ==
    { << <<48, 2>>, <<47, 1>> >>,
      << <<48, 0>> >>,
      << <<47, -1>>, <<49, 3>> >>,
      << <<48, 5>>, <<49, 1>>, <<48, 0>> >> }

\* "msg" bodies of orderbook_snapshot / orderbook_delta messages
KalshiMsgData ==
    [market_ticker : {T1, T2}, yes : LevelLists, no : {<<>>, << <<48, 2>>, <<47, 1>> >>}]

\* frames received on the Kalshi websocket after the reply to a subscribe
\* command: text that is not JSON, and orderbook messages
WsKalshiFrames ==
    { [json |-> FALSE, type |-> "", msg |-> [market_ticker |-> "", yes |-> <<>>, no |-> <<>>]] }
    \cup
    [json : {TRUE}, type : {"orderbook_snapshot", "orderbook_delta"},
     msg : [market_ticker : {T1}, yes : {<< <<48, 2>>, <<47, 1>> >>}, no : {<<>>}]]

\* the server's reply to a subscribe command
SubscribedFrame ==
    [json |-> TRUE, type |-> "subscribed", msg |-> [market_ticker |-> "", yes |-> <<>>, no |-> <<>>]]

\* frames received on the Synoptic websocket: text that is not JSON, a data
\* frame with one well-formed row, a data frame whose row has a non-numeric
\* value, auth frames, a metadata frame
SynopticFrames ==
    {"malformed", "data", "data_bad_row", "auth_failed", "auth_ok", "metadata"}

\* wall clocks (hours since 2026-02-21T00:00Z) of the rows in the recorded
\* parquet files: two on each of two UTC calendar days
TlTimes == {1, 2, 25, 26}

\* WeatherObservationEvent values (ob_time in hours since 2026-02-21T00:00Z)
ObsInputs ==
    [station : {"KMDW1M"}, ob_time : {5, 6, 30, 31}, temp : {41, 42}]
        \cup { [station |-> "KNYC", ob_time |-> 6, temp |-> 42],
               [station |-> "KXXX", ob_time |-> 6, temp |-> 42] }

\* OrderIntent values delivered to the execution managers
IntentSet ==
    { [ strategy_id     |-> "s1",
        market_ticker   |-> tk,
        side            |-> sp[1],
        max_price_cents |-> sp[2],
        max_spend_cents |-> ms,
        paper_mode      |-> TRUE,
        station         |-> "KMDW1M",
        series          |-> "KXHIGHCHI",
        event_ticker    |-> InfoOf(tk).event_ticker ] :
      tk \in Tickers,
      sp \in {<<"no", 52>>, <<"no", 95>>, <<"yes", 95>>},
      ms \in {0, 60, 110} }

\* bot.strategies[].id of the modelled LadderStrategy instance
StrategyId == "ladder_chi_ny"

Keys == ({"s1"} \X {E1, E2}) \cup ({StrategyId} \X {"", E1, E2})

\* ExecutionManager.__init__ configurations (bot.paper_mode, guardrails)
ExecConfigs ==
    { [paper_mode |-> TRUE,  starting_balance_cents |-> 100000,
       max_total_drawdown_cents |-> 0, max_allocation_per_series_cents |-> 0],
      [paper_mode |-> FALSE, starting_balance_cents |-> 300,
       max_total_drawdown_cents |-> 200, max_allocation_per_series_cents |-> 150] }

\* ------------------------------------------------------------------------
\* State
\* ------------------------------------------------------------------------
VARIABLES
    bt_orderbooks,      \* BacktestExecutionManager.orderbooks
    bt_market_info,     \* BacktestExecutionManager.market_info
    bt_spent,           \* BacktestExecutionManager._spent
    bt_fills,           \* BacktestExecutionManager.fills
    bt_sweep,           \* levels and per-level takes of the last backtest sweep
    ex_cfg,             \* ExecutionManager guardrail configuration
    ex_orderbooks,      \* ExecutionManager.orderbooks
    ex_market_info,     \* ExecutionManager.market_info
    paper_balance,      \* ExecutionManager.paper_balance
    series_spent,       \* ExecutionManager._series_spent
    halted,             \* ExecutionManager._halted
    ex_trades,          \* rows written by ExecutionManager._log_trade
    ex_sweep,           \* levels and per-level takes of the last production sweep
    intent_log,         \* key -> sequence of max_spend_cents of its intents
    nIntents,           \* number of OrderIntents processed
    params,             \* params of the LadderStrategy instance
    ladder,             \* LadderStrategy.ladder, in dict insertion order
    weather_history,    \* LadderStrategy.weather_history: station -> deque
    published,          \* OrderIntents passed to event_bus.publish by the strategy
    last_obs,           \* the WeatherObservationEvent handled last
    nObs,               \* number of WeatherObservationEvents handled
    nDisc,              \* number of MarketDiscoveryEvents handled by the strategy
    market_tickers,     \* WeatherBot.market_tickers
    market_info,        \* WeatherBot.market_info
    orderbooks,         \* WeatherBot.orderbooks, maintained by KalshiWSMixin
    wb_ladder,          \* WeatherBot.ladder, in dict insertion order
    kalshi_subscribe_tickers,  \* WeatherBot._kalshi_subscribe_tickers
    snapshotted,        \* tickers whose current book came from an orderbook_snapshot
    last_msg,           \* the Kalshi WS message handled last
    nMsgs,              \* number of Kalshi WS messages handled
    nWbDisc,            \* number of WeatherBot._discover calls
    delivered,          \* number of the strategy's OrderIntents handed to on_order_intent
    bus_kind,           \* class of the event bus: "EventBus" or "SyncEventBus"
    bus_pub,            \* events passed to publish, in call order
    bus_tasks,          \* EventBus: tasks created by asyncio.create_task, not yet run
    bus_calls,          \* handler invocations that ran, in order
    bus_failed,         \* invocations in which the handler raised an exception of its own
    bus_nested,         \* invocations in which a publish from inside the handler raised
    bus_crashed,        \* an exception left SyncEventBus.publish and ended the replay
    bus_origin,         \* for each published OrderIntent, the event whose handler published it
    nPub,               \* number of publishes made by the feeds
    tl_state,           \* BacktestEngine.run: "new", "loaded" (timeline built)
    timeline,           \* DataLoader.load_timeline result
    tl_pos,             \* number of timeline events BacktestEngine.run has published
    running,            \* WeatherBot._running
    wb_pc,              \* WeatherBot.run: "constructed", "discovered", "gathered", "failed"
    k_pc,               \* position of kalshi_ws_loop
    s_pc,               \* position of synoptic_ws_loop
    r_pc,               \* position of _rediscover_loop
    k_reconnect,        \* KalshiWSMixin._kalshi_reconnect_requested
    k_ws,               \* KalshiWSMixin._kalshi_ws: "none", "open", "closed"
    k_local,            \* kalshi_ws_loop's local subscribe_tickers
    k_frame,            \* last subscribe frame sent, with the list current at the send
    k_close_task,       \* a _close_kalshi_ws task is scheduled
    k_ack,              \* the server's reply to the last subscribe frame is in flight
    nKConn,             \* connection attempts of kalshi_ws_loop
    k_pending,          \* where kalshi_ws_loop was when a reconnect was requested that no
                        \* subscribe frame with the current list has answered yet ("none": no such request)
    k_served,           \* k_pending of the request last answered by such a frame
    k_last,             \* "malformed" while kalshi_ws_loop handles an undecodable frame
    nSConn,             \* connection attempts of synoptic_ws_loop
    s_fwd,              \* calls of on_synoptic_observation
    s_last,             \* "malformed" while synoptic_ws_loop handles an undecodable frame
    auth_failed,        \* an auth frame with code "failed" was handled
    r_last,             \* outcome of the rediscovery cycle just run
    r_tickers,          \* "tickers" of that cycle (discover_markets in _rediscover_loop)
    rediscover_interval, \* WeatherBot.rediscover_interval
    op_call,            \* the operation applied on its own, with its arguments
    op_result,          \* what that operation returned and left behind
    lc_baseline_every,  \* LiveCollector.baseline_every
    lc_orderbooks,      \* LiveCollector.orderbooks
    lc_snapshot_count,  \* LiveCollector._snapshot_count
    lc_last_ob,         \* LiveCollector._last_ob
    lc_dirty_levels,    \* LiveCollector._dirty_levels
    lc_ob_rows,         \* rows appended to _ob_buf, which _flush appends to the parquet file
    lc_taken,           \* the books (levels with qty > 0) at each _take_snapshot
    nLcMsgs             \* number of orderbook messages handled by the collector

execVars == << bt_orderbooks, bt_market_info, bt_spent, bt_fills, bt_sweep,
               ex_cfg, ex_orderbooks, ex_market_info, paper_balance,
               series_spent, halted, ex_trades, ex_sweep,
               intent_log, nIntents >>

ladderVars == << params, ladder, weather_history, published, last_obs, nObs, nDisc >>

obVars == << market_tickers, market_info, orderbooks, wb_ladder,
             kalshi_subscribe_tickers, snapshotted, last_msg, nMsgs, nWbDisc >>

pipeVars == << delivered >>

busVars == << bus_kind, bus_pub, bus_tasks, bus_calls, bus_failed, bus_nested,
              bus_crashed, bus_origin, nPub >>

tlVars == << tl_state, timeline, tl_pos >>

runVars == << running, wb_pc, k_pc, s_pc, r_pc >>

kVars == << k_reconnect, k_ws, k_local, k_frame, k_close_task, k_ack, nKConn,
            k_pending, k_served, k_last >>

sVars == << nSConn, s_fwd, s_last, auth_failed >>

rVars == << r_last, r_tickers >>

wsVars == << kVars, sVars, rVars >>

callVars == << op_call, op_result >>

lcVars == << lc_baseline_every, lc_orderbooks, lc_snapshot_count, lc_last_ob,
             lc_dirty_levels, lc_ob_rows, lc_taken, nLcMsgs >>

\* what each specification leaves alone
outsideExec == << ladderVars, obVars, pipeVars, busVars, tlVars, runVars, wsVars, rediscover_interval, callVars, lcVars >>
outsideLadder == << execVars, obVars, pipeVars, busVars, tlVars, runVars, wsVars, rediscover_interval, callVars, lcVars >>
outsideOB == << execVars, ladderVars, pipeVars, busVars, tlVars, runVars, wsVars, rediscover_interval, callVars, lcVars >>
outsidePipe == << obVars, busVars, tlVars, runVars, wsVars, rediscover_interval, callVars, lcVars >>
outsideBus == << execVars, ladderVars, obVars, pipeVars, tlVars, runVars, wsVars, rediscover_interval, callVars, lcVars >>
outsideStart == << execVars, ladderVars, pipeVars, busVars, wsVars, rediscover_interval, callVars, lcVars >>
outsideWs == << execVars, ladderVars, pipeVars, busVars, tlVars, rediscover_interval, callVars, lcVars >>
outsideCalls == << execVars, ladderVars, obVars, pipeVars, busVars, tlVars, runVars, wsVars, rediscover_interval, lcVars >>
outsideCollector == << execVars, ladderVars, obVars, pipeVars, busVars, tlVars, runVars, wsVars, rediscover_interval, callVars >>
exOnlyVars == << ex_cfg, ex_orderbooks, ex_market_info, paper_balance,
                 series_spent, halted, ex_trades, ex_sweep >>

vars == << execVars, ladderVars, obVars, pipeVars, busVars, tlVars, runVars, wsVars,
          rediscover_interval, callVars, lcVars >>

\* ------------------------------------------------------------------------
\* Helpers
\* ------------------------------------------------------------------------
Min(a, b) == IF a <= b THEN a ELSE b
Max(a, b) == IF a >= b THEN a ELSE b

RECURSIVE SeqSum(_)
SeqSum(s) == IF s = <<>> THEN 0 ELSE Head(s) + SeqSum(Tail(s))

RECURSIVE SortByPriceDescending(_)
\* variant of SortByPrice: the sort runs with reverse=True
SortByPriceDescending(S) ==
    IF S = {} THEN <<>>
    ELSE LET m == CHOOSE x \in S : \A y \in S : x.price >= y.price
         IN  <<m>> \o SortByPriceDescending(S \ {m})

RECURSIVE SortByPrice(_)
\* available_levels.sort(key=lambda x: x[0])
SortByPrice(S) ==
    IF S = {} THEN <<>>
    ELSE LET m == CHOOSE x \in S : \A y \in S : x.price <= y.price
         IN  <<m>> \o SortByPrice(S \ {m})

\* available_levels: opposite side's bids with qty > 0 mapped to (100 - price, qty)
AvailableLevelSet(ob, side) ==
    LET opp == IF side = "no" THEN ob.yes ELSE ob.no
    IN  { [price |-> 100 - p, qty |-> opp[p]] : p \in {q \in DOMAIN opp : opp[q] > 0} }

AvailableLevels(ob, side) == SortByPrice(AvailableLevelSet(ob, side))

OppositeSide(ob, side) == IF side = "no" THEN ob.yes ELSE ob.no

TakesContracts(takes) == SeqSum([i \in 1..Len(takes) |-> takes[i].qty])
TakesCost(takes) == SeqSum([i \in 1..Len(takes) |-> takes[i].qty * takes[i].price])

NoSweep == [intent |-> NoneVal, budget |-> -1, opp |-> EmptySide, levels |-> <<>>, takes |-> <<>>]

KeyOf(intent) == << intent.strategy_id, intent.event_ticker >>

\* ------------------------------------------------------------------------
\* BacktestExecutionManager
\* ------------------------------------------------------------------------
\* variant of Remaining: the key's spend is not subtracted from the cap
RemainingIgnoringSpent(spent, intent) ==
    IF intent.max_spend_cents <= 0 THEN -1
    ELSE Max(0, intent.max_spend_cents)

\* _remaining: -1 when uncapped, else max(0, max_spend - spent[key])
Remaining(spent, intent) ==
    IF intent.max_spend_cents <= 0 THEN -1
    ELSE Max(0, intent.max_spend_cents - spent[KeyOf(intent)])

RECURSIVE BtSweepLoopNoPriceBreak(_, _, _, _, _, _)
\* variant of BtSweepLoop: the "price > max_price_cents: break" test is missing
BtSweepLoopNoPriceBreak(levels, i, budget, max_price, total_cost, takes) ==
    IF i > Len(levels) THEN takes
    ELSE LET price == levels[i].price
             qty   == levels[i].qty
         IN  IF budget >= 0 /\ budget - total_cost <= 0 THEN takes
             ELSE LET max_by_budget == IF budget >= 0
                                       THEN (budget - total_cost) \div price
                                       ELSE qty
                      affordable_qty == Min(qty, max_by_budget)
                  IN  IF affordable_qty > 0
                      THEN BtSweepLoopNoPriceBreak(levels, i + 1, budget, max_price,
                               total_cost + affordable_qty * price,
                               Append(takes, [price |-> price, qty |-> affordable_qty]))
                      ELSE BtSweepLoopNoPriceBreak(levels, i + 1, budget, max_price,
                               total_cost, takes)

RECURSIVE BtSweepLoop(_, _, _, _, _, _)
\* the "for price, qty in available_levels" loop; returns the per-level takes
BtSweepLoop(levels, i, budget, max_price, total_cost, takes) ==
    IF i > Len(levels) THEN takes
    ELSE LET price == levels[i].price
             qty   == levels[i].qty
         IN  IF price > max_price THEN takes
             ELSE IF budget >= 0 /\ budget - total_cost <= 0 THEN takes
             ELSE LET max_by_budget == IF budget >= 0
                                       THEN (budget - total_cost) \div price
                                       ELSE qty
                      affordable_qty == Min(qty, max_by_budget)
                  IN  IF affordable_qty > 0
                      THEN BtSweepLoop(levels, i + 1, budget, max_price,
                                       total_cost + affordable_qty * price,
                                       Append(takes, [price |-> price, qty |-> affordable_qty]))
                      ELSE BtSweepLoop(levels, i + 1, budget, max_price, total_cost, takes)

\* outcome of BacktestExecutionManager.on_order_intent on (orderbooks, spent)
BtOutcome(obs, spent, intent) ==
    LET budget == Remaining(spent, intent)
    IN  IF budget = 0 \/ intent.market_ticker \notin DOMAIN obs
        THEN [intent |-> intent, budget |-> budget, opp |-> EmptySide,
              levels |-> <<>>, takes |-> <<>>]
        ELSE LET levels == AvailableLevels(obs[intent.market_ticker], intent.side)
             IN  [intent |-> intent, budget |-> budget,
                  opp |-> OppositeSide(obs[intent.market_ticker], intent.side),
                  levels |-> levels,
                  takes |-> BtSweepLoop(levels, 1, budget, intent.max_price_cents, 0, <<>>)]

\* variant of BtFill: the fill carries the tally read before the cost is added
BtFillSpentBefore(intent, takes, spentAfter) ==
    [ strategy_id |-> intent.strategy_id,
      event_ticker |-> intent.event_ticker,
      series |-> intent.series,
      station |-> intent.station,
      market_ticker |-> intent.market_ticker,
      side |-> intent.side,
      contracts_filled |-> TakesContracts(takes),
      total_cost_cents |-> TakesCost(takes),
      strategy_event_spent_cents |-> spentAfter - TakesCost(takes) ]

\* Fill(...) appended by BacktestExecutionManager.on_order_intent
BtFill(intent, takes, spentAfter) ==
    [ strategy_id |-> intent.strategy_id,
      event_ticker |-> intent.event_ticker,
      series |-> intent.series,
      station |-> intent.station,
      market_ticker |-> intent.market_ticker,
      side |-> intent.side,
      contracts_filled |-> TakesContracts(takes),
      total_cost_cents |-> TakesCost(takes),
      strategy_event_spent_cents |-> spentAfter ]

BtOnOrderIntent(intent) ==
    LET out  == BtOutcome(bt_orderbooks, bt_spent, intent)
        cost == TakesCost(out.takes)
        key  == KeyOf(intent)
    IN  /\ bt_sweep' = out
        /\ IF TakesContracts(out.takes) > 0
           THEN /\ bt_spent' = [bt_spent EXCEPT ![key] = @ + cost]
                /\ bt_fills' = Append(bt_fills, BtFill(intent, out.takes, bt_spent[key] + cost))
           ELSE UNCHANGED << bt_spent, bt_fills >>
        /\ UNCHANGED << bt_orderbooks, bt_market_info >>

\* on_market_discovery (same body in both managers)
DiscoverBooks(obs, ev) ==
    [tk \in DOMAIN obs \cup {ev.market_tickers[i] : i \in 1..Len(ev.market_tickers)} |->
        IF tk \in DOMAIN obs THEN obs[tk] ELSE EmptyBook]

\* self.orderbooks[tk] = book
SetBook(obs, tk, book) ==
    [t \in DOMAIN obs \cup {tk} |-> IF t = tk THEN book ELSE obs[t]]

BtOnMarketDiscovery(ev) ==
    /\ bt_market_info' = ev.market_info
    /\ bt_orderbooks' = DiscoverBooks(bt_orderbooks, ev)
    /\ UNCHANGED << bt_spent, bt_fills, bt_sweep >>

BtOnOrderbookUpdate(tk, book) ==
    /\ bt_orderbooks' = SetBook(bt_orderbooks, tk, book)
    /\ UNCHANGED << bt_market_info, bt_spent, bt_fills, bt_sweep >>

\* ------------------------------------------------------------------------
\* ExecutionManager (production paper / live)
\* ------------------------------------------------------------------------
\* _check_drawdown: TRUE when the global drawdown limit is breached
CheckDrawdown(cfg, balance) ==
    /\ cfg.max_total_drawdown > 0
    /\ cfg.starting_balance - balance >= cfg.max_total_drawdown

RECURSIVE ExSweepLoopNoPriceBreak(_, _, _, _, _, _, _)
\* variant of ExSweepLoop: the "price > intent.max_price_cents: break" test
\* is missing
ExSweepLoopNoPriceBreak(levels, i, intent, cfg, balance0, series_spent0, takes) ==
    IF i > Len(levels) THEN takes
    ELSE LET price      == levels[i].price
             qty        == levels[i].qty
             total_cost == TakesCost(takes)
             balance    == balance0 - total_cost
         IN  IF balance < price THEN takes
             ELSE LET series_remaining == cfg.max_allocation_per_series - series_spent0 - total_cost
                  IN  IF cfg.max_allocation_per_series > 0 /\ series_remaining <= 0 THEN takes
                      ELSE LET max_by_series == IF cfg.max_allocation_per_series > 0
                                                THEN series_remaining \div price
                                                ELSE qty
                               affordable_qty == Min(Min(qty, balance \div price), max_by_series)
                               takes2 == IF affordable_qty > 0
                                         THEN Append(takes, [price |-> price, qty |-> affordable_qty])
                                         ELSE takes
                           IN  IF balance0 - TakesCost(takes2) < price THEN takes2
                               ELSE ExSweepLoopNoPriceBreak(levels, i + 1, intent, cfg, balance0,
                                                series_spent0, takes2)

RECURSIVE ExSweepLoopSeriesRoundedUp(_, _, _, _, _, _, _)
\* variant of ExSweepLoop: max_by_series is rounded up, the contract that
\* crosses the allocation is still bought
ExSweepLoopSeriesRoundedUp(levels, i, intent, cfg, balance0, series_spent0, takes) ==
    IF i > Len(levels) THEN takes
    ELSE LET price      == levels[i].price
             qty        == levels[i].qty
             total_cost == TakesCost(takes)
             balance    == balance0 - total_cost
         IN  IF price > intent.max_price_cents THEN takes
             ELSE IF balance < price THEN takes
             ELSE LET series_remaining == cfg.max_allocation_per_series - series_spent0 - total_cost
                  IN  IF cfg.max_allocation_per_series > 0 /\ series_remaining <= 0 THEN takes
                      ELSE LET max_by_series == IF cfg.max_allocation_per_series > 0
                                                THEN (series_remaining + price - 1) \div price
                                                ELSE qty
                               affordable_qty == Min(Min(qty, balance \div price), max_by_series)
                               takes2 == IF affordable_qty > 0
                                         THEN Append(takes, [price |-> price, qty |-> affordable_qty])
                                         ELSE takes
                           IN  IF balance0 - TakesCost(takes2) < price THEN takes2
                               ELSE ExSweepLoopSeriesRoundedUp(levels, i + 1, intent, cfg, balance0,
                                                series_spent0, takes2)

RECURSIVE ExSweepLoop(_, _, _, _, _, _, _)
\* the sweep loop of ExecutionManager.on_order_intent; balance0 and
\* series_spent0 are the values on entry, total_cost the cost so far
ExSweepLoop(levels, i, intent, cfg, balance0, series_spent0, takes) ==
    IF i > Len(levels) THEN takes
    ELSE LET price      == levels[i].price
             qty        == levels[i].qty
             total_cost == TakesCost(takes)
             balance    == balance0 - total_cost
         IN  IF price > intent.max_price_cents THEN takes
             ELSE IF balance < price THEN takes
             ELSE LET series_remaining == cfg.max_allocation_per_series - series_spent0 - total_cost
                  IN  IF cfg.max_allocation_per_series > 0 /\ series_remaining <= 0 THEN takes
                      ELSE LET max_by_series == IF cfg.max_allocation_per_series > 0
                                                THEN series_remaining \div price
                                                ELSE qty
                               affordable_qty == Min(Min(qty, balance \div price), max_by_series)
                               takes2 == IF affordable_qty > 0
                                         THEN Append(takes, [price |-> price, qty |-> affordable_qty])
                                         ELSE takes
                           IN  IF balance0 - TakesCost(takes2) < price THEN takes2
                               ELSE ExSweepLoop(levels, i + 1, intent, cfg, balance0,
                                                series_spent0, takes2)

\* cents the sweep may spend on entry: the balance, cut by the series allocation left
ExBudget(cfg, balance, series_spent0) ==
    IF cfg.max_allocation_per_series > 0
    THEN Min(balance, cfg.max_allocation_per_series - series_spent0)
    ELSE balance

ExTradeRow(intent, takes, balanceAfter, seriesAfter) ==
    [ strategy_id |-> intent.strategy_id,
      series |-> intent.series,
      station |-> intent.station,
      market_ticker |-> intent.market_ticker,
      side |-> intent.side,
      contracts_filled |-> TakesContracts(takes),
      total_cost_cents |-> TakesCost(takes),
      remaining_balance_cents |-> balanceAfter,
      series_allocation_cents |-> seriesAfter ]

ExSkip(intent) ==
    /\ ex_sweep' = [intent |-> intent, budget |-> -1, opp |-> EmptySide, levels |-> <<>>, takes |-> <<>>]
    /\ UNCHANGED << paper_balance, series_spent, ex_trades >>

ExOnOrderIntent(intent) ==
    /\ UNCHANGED << ex_cfg, ex_orderbooks, ex_market_info >>
    /\ IF halted
       THEN ExSkip(intent) /\ UNCHANGED halted
       ELSE IF CheckDrawdown(ex_cfg, paper_balance)
       THEN ExSkip(intent) /\ halted' = TRUE
       ELSE IF intent.market_ticker \notin DOMAIN ex_orderbooks \/ paper_balance <= 0
       THEN ExSkip(intent) /\ UNCHANGED halted
       ELSE LET levels == AvailableLevels(ex_orderbooks[intent.market_ticker], intent.side)
                takes  == ExSweepLoop(levels, 1, intent, ex_cfg, paper_balance,
                                      series_spent[intent.series], <<>>)
                cost   == TakesCost(takes)
            IN  /\ ex_sweep' = [intent |-> intent,
                                 budget |-> ExBudget(ex_cfg, paper_balance, series_spent[intent.series]),
                                 opp |-> OppositeSide(ex_orderbooks[intent.market_ticker], intent.side),
                                 levels |-> levels, takes |-> takes]
                /\ paper_balance' = paper_balance - cost
                /\ IF TakesContracts(takes) > 0
                   THEN /\ series_spent' = [series_spent EXCEPT ![intent.series] = @ + cost]
                        /\ ex_trades' = Append(ex_trades,
                               ExTradeRow(intent, takes, paper_balance - cost,
                                          series_spent[intent.series] + cost))
                        /\ halted' = CheckDrawdown(ex_cfg, paper_balance - cost)
                   ELSE UNCHANGED << series_spent, ex_trades, halted >>

ExOnMarketDiscovery(ev) ==
    /\ ex_market_info' = ev.market_info
    /\ ex_orderbooks' = DiscoverBooks(ex_orderbooks, ev)
    /\ UNCHANGED << ex_cfg, paper_balance, series_spent, halted, ex_trades, ex_sweep >>

ExOnOrderbookUpdate(tk, book) ==
    /\ ex_orderbooks' = SetBook(ex_orderbooks, tk, book)
    /\ UNCHANGED << ex_cfg, ex_market_info, paper_balance, series_spent, halted,
                    ex_trades, ex_sweep >>

\* ------------------------------------------------------------------------
\* The same event sequence delivered to both execution managers
\* ------------------------------------------------------------------------
ExecConfig(c) ==
    [ paper_mode |-> c.paper_mode,
      starting_balance |-> IF c.paper_mode THEN 100000000 ELSE c.starting_balance_cents,
      max_total_drawdown |-> IF c.paper_mode THEN 0 ELSE c.max_total_drawdown_cents,
      max_allocation_per_series |->
          IF c.paper_mode THEN 0 ELSE c.max_allocation_per_series_cents ]

InitExec ==
    /\ bt_orderbooks = [tk \in {} |-> EmptyBook]
    /\ bt_market_info = [tk \in {} |-> InfoOf(tk)]
    /\ bt_spent = [k \in Keys |-> 0]
    /\ bt_fills = <<>>
    /\ bt_sweep = NoSweep
    /\ ex_cfg \in {ExecConfig(c) : c \in ExecConfigs}
    /\ ex_orderbooks = [tk \in {} |-> EmptyBook]
    /\ ex_market_info = [tk \in {} |-> InfoOf(tk)]
    /\ paper_balance = ex_cfg.starting_balance
    /\ series_spent = [s \in {"KXHIGHCHI"} |-> 0]
    /\ halted = FALSE
    /\ ex_trades = <<>>
    /\ ex_sweep = NoSweep
    /\ intent_log = [k \in Keys |-> <<>>]
    /\ nIntents = 0

PublishMarketDiscovery ==
    \E ev \in DiscoveryEvents :
        /\ BtOnMarketDiscovery(ev)
        /\ ExOnMarketDiscovery(ev)
        /\ UNCHANGED << intent_log, nIntents, outsideExec >>

PublishOrderbookUpdate ==
    \E tk \in Tickers, book \in UpdateBooks :
        /\ BtOnOrderbookUpdate(tk, book)
        /\ ExOnOrderbookUpdate(tk, book)
        /\ UNCHANGED << intent_log, nIntents, outsideExec >>

PublishOrderIntent ==
    \E intent \in IntentSet :
        /\ nIntents < MaxIntents
        /\ BtOnOrderIntent(intent)
        /\ ExOnOrderIntent(intent)
        /\ intent_log' = [intent_log EXCEPT ![KeyOf(intent)] = Append(@, intent.max_spend_cents)]
        /\ nIntents' = nIntents + 1
        /\ UNCHANGED outsideExec

NextExec ==
    \/ PublishMarketDiscovery
    \/ PublishOrderbookUpdate
    \/ PublishOrderIntent

\* ------------------------------------------------------------------------
\* LadderStrategy
\* ------------------------------------------------------------------------
\* bot.strategies entry of the modelled instance
StrategyTargets == << "KXHIGHCHI", "KXHIGHNY" >>
StrategyParams ==
    [consecutive_obs : {1, 2}, max_price_cents : {95}, max_spend_per_event_cents : {60}]

\* deque(maxlen=10)
HistoryMaxLen == 10

\* KALSHI_MARKET_REGISTRY (the entries the inputs refer to)
KalshiMarketRegistry ==
    ("KXHIGHCHI" :> [tz |-> "America/Chicago", synoptic_station |-> "KMDW1M"]) @@
    ("KXHIGHNY" :> [tz |-> "America/New_York", synoptic_station |-> "KNYC"]) @@
    ("KXHIGHMIA" :> [tz |-> "America/New_York", synoptic_station |-> "KMIA1M"])

\* LadderStrategy.__init__: consecutive_obs_required, max_price_cents
ConsecutiveObsRequired == params.consecutive_obs
MaxPriceCents == params.max_price_cents

\* self._market_configs: the targets found in the registry, in target order
MarketConfigSeries ==
    SelectSeq(StrategyTargets, LAMBDA sr : sr \in DOMAIN KalshiMarketRegistry)

\* stations that get a deque
TargetStations ==
    { KalshiMarketRegistry[MarketConfigSeries[i]].synoptic_station :
        i \in 1..Len(MarketConfigSeries) } \ {""}

\* event_ticker.startswith(s)
SeriesPrefixOf(event_ticker) ==
    CASE event_ticker \in {E1, E2, E6} -> "KXHIGHCHI"
      [] event_ticker = E3 -> "KXHIGHNY"
      [] event_ticker = E4 -> "KXHIGHMIA"
      [] OTHER -> ""

StartsWith(event_ticker, sr) == SeriesPrefixOf(event_ticker) = sr

\* next((s for s in self._market_configs if event_ticker.startswith(s)), None)
\* as {} (None) or {series}
MatchSeries(event_ticker) ==
    LET hits == SelectSeq(MarketConfigSeries, LAMBDA sr : StartsWith(event_ticker, sr))
    IN  IF hits = <<>> THEN {} ELSE {hits[1]}

\* date suffix of the event ticker, in days since 2026-02-21
EventDay(event_ticker) ==
    IF event_ticker = E2 THEN 1 ELSE 0

\* date(year, month, day) raises ValueError: the date token has the shape
\* YYMMMDD but names no calendar day (30 February)
EventDateRaises(event_ticker) == event_ticker = E6

\* winter_dt.utcoffset() in hours
LstUtcOffset(tz) ==
    IF tz = "America/Chicago" THEN -6 ELSE -5

\* nws_observation_period, in hours since 2026-02-21T00:00Z
NwsObservationPeriod(event_ticker, tz) ==
    LET nws_start_utc == 24 * EventDay(event_ticker) - LstUtcOffset(tz)
    IN  << nws_start_utc, nws_start_utc + 24 >>

\* self.ladder[tk] = entry on an insertion-ordered dict
DictSet(d, entry) ==
    IF \E i \in 1..Len(d) : d[i].ticker = entry.ticker
    THEN [i \in 1..Len(d) |-> IF d[i].ticker = entry.ticker THEN entry ELSE d[i]]
    ELSE Append(d, entry)

RECURSIVE BuildLadder(_, _, _)
\* the "for tk in event.market_tickers" loop of on_market_discovery; a
\* ValueError out of nws_observation_period leaves the loop and the handler,
\* with the entries inserted so far in place
BuildLadder(ev, i, acc) ==
    IF i > Len(ev.market_tickers) THEN acc
    ELSE LET tk == ev.market_tickers[i]
         IN  IF tk \notin DOMAIN ev.market_info \/ ev.market_info[tk].cap_strike = {}
             THEN BuildLadder(ev, i + 1, acc)
             ELSE LET info == ev.market_info[tk]
                      hit  == MatchSeries(info.event_ticker)
                  IN  IF hit = {} THEN BuildLadder(ev, i + 1, acc)
                      ELSE IF EventDateRaises(info.event_ticker) THEN acc
                      ELSE LET series == CHOOSE sr \in hit : TRUE
                               mc     == KalshiMarketRegistry[series]
                               period == NwsObservationPeriod(info.event_ticker, mc.tz)
                           IN  BuildLadder(ev, i + 1, DictSet(acc,
                                   [ ticker |-> tk,
                                     trigger_temp |-> CHOOSE c \in info.cap_strike : TRUE,
                                     executed |-> FALSE,
                                     series |-> series,
                                     station |-> mc.synoptic_station,
                                     nws_start |-> period[1],
                                     nws_end |-> period[2] ]))

\* variant of HistoryAfterDiscovery: the deques are not cleared
HistoryKeptAcrossDiscovery(history) ==
    [st \in TargetStations |-> IF st \in DOMAIN history THEN history[st] ELSE <<>>]

\* weather_history.clear() followed by a fresh deque per target station
HistoryAfterDiscovery(history) ==
    [st \in TargetStations |-> <<>>]

OnMarketDiscovery(ev) ==
    /\ nDisc < MaxDiscoveries
    /\ ladder' = BuildLadder(ev, 1, <<>>)
    /\ weather_history' = HistoryAfterDiscovery(weather_history)
    /\ nDisc' = nDisc + 1
    /\ UNCHANGED << params, published, last_obs, nObs >>

\* self.weather_history[station].append(...) on a deque(maxlen=10)
DequeAppend(h, x) ==
    LET a == Append(h, x)
    IN  IF Len(a) > HistoryMaxLen THEN Tail(a) ELSE a

\* variant of InWindow: the end of the window is excluded
InWindowHalfOpen(ob_time, nws_start, nws_end) ==
    nws_start <= ob_time /\ ob_time < nws_end

\* nws_start <= dt <= nws_end
InWindow(ob_time, nws_start, nws_end) ==
    nws_start <= ob_time /\ ob_time <= nws_end

\* valid_obs = [t for (dt, t) in history if nws_start <= dt <= nws_end]
ValidObs(history, nws_start, nws_end) ==
    LET kept == SelectSeq(history, LAMBDA o : InWindow(o.ob_time, nws_start, nws_end))
    IN  [i \in 1..Len(kept) |-> kept[i].temp]

\* variant of Triggered: the comparison is t > threshold
TriggeredStrictlyAbove(valid_obs, threshold) ==
    /\ Len(valid_obs) >= ConsecutiveObsRequired
    /\ \A i \in (Len(valid_obs) - ConsecutiveObsRequired + 1)..Len(valid_obs) :
           valid_obs[i] > threshold

\* len(valid_obs) >= required and all(t >= threshold for t in valid_obs[-required:])
Triggered(valid_obs, threshold) ==
    /\ Len(valid_obs) >= ConsecutiveObsRequired
    /\ \A i \in (Len(valid_obs) - ConsecutiveObsRequired + 1)..Len(valid_obs) :
           valid_obs[i] >= threshold

\* variant of Skipped: the executed flag is not consulted
SkippedIgnoringExecuted(info, station) ==
    info.station # station

\* the two "continue" tests at the head of the ladder loop
Skipped(info, station) ==
    info.executed \/ info.station # station

\* OrderIntent dataclass defaults
OrderIntentDefaults ==
    [ strategy_id |-> "", market_ticker |-> "", side |-> "", max_price_cents |-> 0,
      max_spend_cents |-> 0, paper_mode |-> TRUE, station |-> "", series |-> "",
      event_ticker |-> "" ]

\* the OrderIntent(...) built on a trigger
TriggerIntent(info, station) ==
    [ OrderIntentDefaults EXCEPT
        !.strategy_id = StrategyId,
        !.market_ticker = info.ticker,
        !.side = "no",
        !.max_price_cents = MaxPriceCents,
        !.station = station,
        !.series = info.series ]

Fires(info, station, history) ==
    /\ ~Skipped(info, station)
    /\ Triggered(ValidObs(history, info.nws_start, info.nws_end), info.trigger_temp)

RECURSIVE TriggerIntents(_, _, _, _)
\* the intents published by one pass over the ladder, in ladder order
TriggerIntents(lad, i, station, history) ==
    IF i > Len(lad) THEN <<>>
    ELSE (IF Fires(lad[i], station, history)
          THEN << TriggerIntent(lad[i], station) >> ELSE <<>>)
         \o TriggerIntents(lad, i + 1, station, history)

OnWeatherObservation(o) ==
    /\ nObs < MaxObs
    /\ nObs' = nObs + 1
    /\ last_obs' = o
    /\ UNCHANGED << params, nDisc >>
    /\ IF o.station \notin DOMAIN weather_history
       THEN UNCHANGED << ladder, weather_history, published >>
       ELSE LET history == DequeAppend(weather_history[o.station],
                                       [ob_time |-> o.ob_time, temp |-> o.temp])
            IN  /\ weather_history' = [weather_history EXCEPT ![o.station] = history]
                /\ ladder' = [i \in 1..Len(ladder) |->
                                 IF Fires(ladder[i], o.station, history)
                                 THEN [ladder[i] EXCEPT !.executed = TRUE]
                                 ELSE ladder[i]]
                /\ published' = published \o TriggerIntents(ladder, 1, o.station, history)

InitLadder ==
    /\ params \in StrategyParams
    /\ ladder = <<>>
    /\ weather_history = [st \in TargetStations |-> <<>>]
    /\ published = <<>>
    /\ last_obs = [station |-> "", ob_time |-> 0, temp |-> 0]
    /\ nObs = 0
    /\ nDisc = 0

StrategyDiscovery ==
    \E ev \in LadderDiscoveryEvents :
        OnMarketDiscovery(ev) /\ UNCHANGED outsideLadder

StrategyObservation ==
    \E o \in ObsInputs :
        OnWeatherObservation(o) /\ UNCHANGED outsideLadder

NextLadder ==
    \/ StrategyDiscovery
    \/ StrategyObservation

\* ------------------------------------------------------------------------
\* KalshiWSMixin orderbook maintenance inside WeatherBot
\* ------------------------------------------------------------------------
RECURSIVE SnapshotSide(_, _, _)
\* for price, qty in data.get(side, []): ob[side][int(price)] = qty
SnapshotSide(levels, i, acc) ==
    IF i > Len(levels) THEN acc
    ELSE SnapshotSide(levels, i + 1,
             [p \in DOMAIN acc \cup {levels[i][1]} |->
                 IF p = levels[i][1] THEN levels[i][2] ELSE acc[p]])

\* variant of ApplyOrderbookSnapshot: the message's levels are written into
\* the book the ticker already has
ApplyOrderbookSnapshotMerging(obs, data) ==
    LET old == IF data.market_ticker \in DOMAIN obs THEN obs[data.market_ticker]
               ELSE EmptyBook
    IN  SetBook(obs, data.market_ticker,
                [yes |-> SnapshotSide(data.yes, 1, old.yes),
                 no  |-> SnapshotSide(data.no, 1, old.no)])

\* apply_orderbook_snapshot: the book is rebuilt from the message
ApplyOrderbookSnapshot(obs, data) ==
    SetBook(obs, data.market_ticker,
            [yes |-> SnapshotSide(data.yes, 1, EmptySide),
             no  |-> SnapshotSide(data.no, 1, EmptySide)])

RECURSIVE DeltaSideLastFirst(_, _, _)
\* variant of DeltaSide: the entries of a side are taken last to first
DeltaSideLastFirst(levels, i, acc) ==
    IF i > Len(levels) THEN acc
    ELSE LET p   == levels[Len(levels) + 1 - i][1]
             qty == levels[Len(levels) + 1 - i][2]
         IN  DeltaSideLastFirst(levels, i + 1,
                 IF qty <= 0
                 THEN [q \in DOMAIN acc \ {p} |-> acc[q]]
                 ELSE [q \in DOMAIN acc \cup {p} |-> IF q = p THEN qty ELSE acc[q]])

RECURSIVE DeltaSide(_, _, _)
\* qty <= 0 pops the price, otherwise the quantity is overwritten
DeltaSide(levels, i, acc) ==
    IF i > Len(levels) THEN acc
    ELSE LET p   == levels[i][1]
             qty == levels[i][2]
         IN  DeltaSide(levels, i + 1,
                 IF qty <= 0
                 THEN [q \in DOMAIN acc \ {p} |-> acc[q]]
                 ELSE [q \in DOMAIN acc \cup {p} |-> IF q = p THEN qty ELSE acc[q]])

\* apply_orderbook_delta: returns at once for a ticker without a stored book
ApplyOrderbookDelta(obs, data) ==
    IF data.market_ticker \notin DOMAIN obs THEN obs
    ELSE [obs EXCEPT ![data.market_ticker] =
              [yes |-> DeltaSide(data.yes, 1, obs[data.market_ticker].yes),
               no  |-> DeltaSide(data.no, 1, obs[data.market_ticker].no)]]

\* kalshi_ws_loop, mtype == "orderbook_snapshot"
KalshiSnapshot(data) ==
    /\ nMsgs < MaxMsgs
    /\ nMsgs' = nMsgs + 1
    /\ last_msg' = [type |-> "orderbook_snapshot", msg |-> data]
    /\ orderbooks' = ApplyOrderbookSnapshot(orderbooks, data)
    /\ snapshotted' = snapshotted \cup {data.market_ticker}
    /\ UNCHANGED << market_tickers, market_info, wb_ladder,
                    kalshi_subscribe_tickers, nWbDisc >>

\* kalshi_ws_loop, mtype == "orderbook_delta"
KalshiDelta(data) ==
    /\ nMsgs < MaxMsgs
    /\ nMsgs' = nMsgs + 1
    /\ last_msg' = [type |-> "orderbook_delta", msg |-> data]
    /\ orderbooks' = ApplyOrderbookDelta(orderbooks, data)
    /\ UNCHANGED << market_tickers, market_info, wb_ladder,
                    kalshi_subscribe_tickers, snapshotted, nWbDisc >>

RECURSIVE WbBuildLadder(_, _, _, _)
\* the "for tk in tickers" loop of _discover, ladder part (the subtitle, only
\* logged, is left out)
WbBuildLadder(tickers, info, i, acc) ==
    IF i > Len(tickers) THEN acc
    ELSE LET tk == tickers[i]
         IN  IF tk \notin DOMAIN info \/ info[tk].cap_strike = {}
             THEN WbBuildLadder(tickers, info, i + 1, acc)
             ELSE LET hit == MatchSeries(info[tk].event_ticker)
                  IN  IF hit = {} THEN WbBuildLadder(tickers, info, i + 1, acc)
                      ELSE LET series == CHOOSE sr \in hit : TRUE
                               mc     == KalshiMarketRegistry[series]
                               period == NwsObservationPeriod(info[tk].event_ticker, mc.tz)
                           IN  WbBuildLadder(tickers, info, i + 1, DictSet(acc,
                                   [ ticker |-> tk,
                                     trigger_temp |-> CHOOSE c \in info[tk].cap_strike : TRUE,
                                     executed |-> FALSE,
                                     series |-> series,
                                     station |-> mc.synoptic_station,
                                     nws_start |-> period[1],
                                     nws_end |-> period[2] ]))

\* self.orderbooks[tk] = {"yes": {}, "no": {}} for every discovered ticker
ResetBooks(obs, tickers) ==
    LET tks == {tickers[i] : i \in 1..Len(tickers)}
    IN  [tk \in DOMAIN obs \cup tks |-> IF tk \in tks THEN EmptyBook ELSE obs[tk]]

\* WeatherBot._discover
Discover(r) ==
    /\ nWbDisc < MaxDiscoveries
    /\ nWbDisc' = nWbDisc + 1
    /\ UNCHANGED << last_msg, nMsgs >>
    /\ IF r.event_tickers = <<>>
       THEN UNCHANGED << market_tickers, market_info, orderbooks, wb_ladder,
                         kalshi_subscribe_tickers, snapshotted >>
       ELSE LET lad == WbBuildLadder(r.market_tickers, r.market_info, 1, <<>>)
            IN  /\ market_tickers' = r.market_tickers
                /\ market_info' = r.market_info
                /\ orderbooks' = ResetBooks(orderbooks, r.market_tickers)
                /\ wb_ladder' = lad
                /\ kalshi_subscribe_tickers' =
                       IF lad # <<>> THEN [i \in 1..Len(lad) |-> lad[i].ticker]
                       ELSE r.market_tickers
                /\ snapshotted' =
                       snapshotted \ {r.market_tickers[i] : i \in 1..Len(r.market_tickers)}

\* WeatherBot.__init__
InitOB ==
    /\ market_tickers = <<>>
    /\ market_info = InfoMap({})
    /\ orderbooks = [tk \in {} |-> EmptyBook]
    /\ wb_ladder = <<>>
    /\ kalshi_subscribe_tickers = <<>>
    /\ snapshotted = {}
    /\ last_msg = [type |-> "", msg |-> [market_ticker |-> "", yes |-> <<>>, no |-> <<>>]]
    /\ nMsgs = 0
    /\ nWbDisc = 0

WbDiscover ==
    \E r \in DiscoverResults : Discover(r) /\ UNCHANGED outsideOB

WsSnapshot ==
    \E data \in KalshiMsgData : KalshiSnapshot(data) /\ UNCHANGED outsideOB

WsDelta ==
    \E data \in KalshiMsgData : KalshiDelta(data) /\ UNCHANGED outsideOB

NextOB ==
    \/ WbDiscover
    \/ WsSnapshot
    \/ WsDelta

\* ------------------------------------------------------------------------
\* LadderStrategy feeding BacktestExecutionManager through the event bus
\* ------------------------------------------------------------------------
\* every OrderIntent the strategy published has reached on_order_intent
BusIdle == delivered = Len(published)

\* MarketDiscoveryEvent: execution manager (subscribed first), then strategy
PipeMarketDiscovery ==
    \E ev \in LadderDiscoveryEvents :
        /\ BusIdle
        /\ BtOnMarketDiscovery(ev)
        /\ OnMarketDiscovery(ev)
        /\ UNCHANGED << exOnlyVars, intent_log, nIntents, outsidePipe, delivered >>

\* OrderbookUpdateEvent: execution manager stores it, the strategy's handler
\* is "pass"
PipeOrderbookUpdate ==
    \E tk \in Tickers, book \in PipeBooks :
        /\ BusIdle
        /\ BtOnOrderbookUpdate(tk, book)
        /\ UNCHANGED << exOnlyVars, intent_log, nIntents, ladderVars, outsidePipe, delivered >>

\* WeatherObservationEvent: only strategies subscribe
PipeWeatherObservation ==
    \E o \in ObsInputs :
        /\ BusIdle
        /\ OnWeatherObservation(o)
        /\ UNCHANGED << execVars, outsidePipe, delivered >>

\* the next OrderIntent published by the strategy reaches on_order_intent
PipeOrderIntent ==
    /\ delivered < Len(published)
    /\ LET intent == published[delivered + 1]
       IN  /\ BtOnOrderIntent(intent)
           /\ intent_log' = [intent_log EXCEPT ![KeyOf(intent)] =
                                 Append(@, intent.max_spend_cents)]
    /\ nIntents' = nIntents + 1
    /\ delivered' = delivered + 1
    /\ UNCHANGED << exOnlyVars, ladderVars, outsidePipe >>

InitPipe == delivered = 0

NextPipe ==
    \/ PipeMarketDiscovery
    \/ PipeOrderbookUpdate
    \/ PipeWeatherObservation
    \/ PipeOrderIntent

\* ------------------------------------------------------------------------
\* EventBus and SyncEventBus
\* ------------------------------------------------------------------------
\* _subscribers after the execution manager and two strategies subscribed, in
\* subscription order
Subscribers ==
    [ OrderIntent |-> << "ex.on_order_intent" >>,
      OrderbookUpdateEvent |-> << "ex.on_orderbook_update", "s1.on_orderbook_update",
                                  "s2.on_orderbook_update" >>,
      MarketDiscoveryEvent |-> << "ex.on_market_discovery", "s1.on_market_discovery",
                                  "s2.on_market_discovery" >>,
      WeatherObservationEvent |-> << "s1.on_weather_observation",
                                     "s2.on_weather_observation" >> ]

\* event types the feeds publish
FeedEventTypes == {"OrderbookUpdateEvent", "MarketDiscoveryEvent", "WeatherObservationEvent"}

\* handlers whose body calls event_bus.publish(OrderIntent(...))
PublishingHandlers == {"s1.on_weather_observation", "s2.on_weather_observation"}

\* what one invocation of a handler does, as far as the bus is concerned
Outcomes(h) ==
    {"return", "raise"} \cup (IF h \in PublishingHandlers THEN {"publish"} ELSE {})

NewEvent(pub, type) == [id |-> Len(pub) + 1, type |-> type]

\* EventBus.publish: one task per subscriber, in subscription order
CreateTasks(ev) ==
    [i \in 1..Len(Subscribers[ev.type]) |-> [handler |-> Subscribers[ev.type][i], id |-> ev.id]]

\* a feed calls EventBus.publish
EventBusPublish(type) ==
    /\ bus_kind = "EventBus"
    /\ nPub < MaxPublishes
    /\ nPub' = nPub + 1
    /\ LET ev == NewEvent(bus_pub, type)
       IN  /\ bus_pub' = Append(bus_pub, ev)
           /\ bus_tasks' = bus_tasks \o CreateTasks(ev)
    /\ UNCHANGED << bus_kind, bus_calls, bus_failed, bus_nested, bus_crashed, bus_origin >>

\* the event loop runs the oldest task; an exception stays inside the task
EventBusRunTask(outcome) ==
    /\ bus_kind = "EventBus"
    /\ bus_tasks # <<>>
    /\ LET t == Head(bus_tasks)
       IN  /\ outcome \in Outcomes(t.handler)
           /\ bus_calls' = Append(bus_calls, t)
           /\ bus_failed' = IF outcome = "raise" THEN bus_failed \cup {t} ELSE bus_failed
           /\ IF outcome = "publish"
              THEN LET ev == NewEvent(bus_pub, "OrderIntent")
                   IN  /\ bus_pub' = Append(bus_pub, ev)
                       /\ bus_tasks' = Tail(bus_tasks) \o CreateTasks(ev)
                       /\ bus_origin' = bus_origin \cup {[intent |-> ev.id, event |-> t.id]}
              ELSE /\ bus_pub' = bus_pub
                   /\ bus_tasks' = Tail(bus_tasks)
                   /\ bus_origin' = bus_origin
    /\ UNCHANGED << bus_kind, bus_nested, bus_crashed, nPub >>

RECURSIVE SyncDispatch(_, _, _, _)
\* the "for handler in self._subscribers[event_type]" loop of
\* SyncEventBus.publish called outside a running loop: asyncio.run(coro) per
\* handler; a publish from inside the handler finds a running loop, where both
\* run_until_complete and asyncio.run raise RuntimeError; any exception leaves
\* the loop
SyncDispatch(ev, i, beh, acc) ==
    IF i > Len(Subscribers[ev.type]) THEN acc
    ELSE LET call == [handler |-> Subscribers[ev.type][i], id |-> ev.id]
             ran  == [acc EXCEPT !.calls = Append(@, call)]
         IN  CASE beh[i] = "return" -> SyncDispatch(ev, i + 1, beh, ran)
               [] beh[i] = "raise" ->
                    [ran EXCEPT !.failed = @ \cup {call}, !.crashed = TRUE]
               [] beh[i] = "publish" ->
                    [ran EXCEPT !.pub = Append(@, NewEvent(@, "OrderIntent")),
                                !.nested = @ \cup {call},
                                !.crashed = TRUE]

\* BacktestEngine.run calls SyncEventBus.publish
SyncEventBusPublish(type) ==
    /\ bus_kind = "SyncEventBus"
    /\ ~bus_crashed
    /\ nPub < MaxPublishes
    /\ nPub' = nPub + 1
    /\ \E beh \in [1..Len(Subscribers[type]) -> {"return", "raise", "publish"}] :
          /\ \A i \in DOMAIN beh : beh[i] \in Outcomes(Subscribers[type][i])
          /\ LET ev  == NewEvent(bus_pub, type)
                 out == SyncDispatch(ev, 1, beh,
                            [pub |-> Append(bus_pub, ev), calls |-> bus_calls,
                             failed |-> bus_failed, nested |-> bus_nested,
                             crashed |-> FALSE])
             IN  /\ bus_pub' = out.pub
                 /\ bus_calls' = out.calls
                 /\ bus_failed' = out.failed
                 /\ bus_nested' = out.nested
                 /\ bus_origin' = bus_origin \cup
                        { [intent |-> out.pub[k].id, event |-> ev.id] :
                              k \in (Len(bus_pub) + 2)..Len(out.pub) }
                 /\ bus_crashed' = out.crashed
    /\ UNCHANGED << bus_kind, bus_tasks >>

InitBus ==
    /\ bus_kind \in {"EventBus", "SyncEventBus"}
    /\ bus_pub = <<>>
    /\ bus_tasks = <<>>
    /\ bus_calls = <<>>
    /\ bus_failed = {}
    /\ bus_nested = {}
    /\ bus_crashed = FALSE
    /\ bus_origin = {}
    /\ nPub = 0

FeedPublishAsync ==
    \E type \in FeedEventTypes : EventBusPublish(type) /\ UNCHANGED outsideBus

RunTask ==
    \E outcome \in {"return", "raise", "publish"} :
        EventBusRunTask(outcome) /\ UNCHANGED outsideBus

FeedPublishSync ==
    \E type \in FeedEventTypes : SyncEventBusPublish(type) /\ UNCHANGED outsideBus

NextBus ==
    \/ FeedPublishAsync
    \/ RunTask
    \/ FeedPublishSync

\* ------------------------------------------------------------------------
\* DataLoader.load_timeline and its replay by BacktestEngine.run
\* ------------------------------------------------------------------------
\* wall_clock.date(), in days since 2026-02-21
DateOf(wall_clock) == wall_clock \div 24

RECURSIVE SetToSeq(_)
\* rows of a frame in ascending timestamp order
SetToSeq(S) ==
    IF S = {} THEN <<>>
    ELSE LET x == CHOOSE y \in S : \A z \in S : y <= z
         IN  << x >> \o SetToSeq(S \ {x})

SimEvents(times, type) ==
    LET sq == SetToSeq(times)
    IN  [i \in 1..Len(sq) |-> [wall_clock |-> sq[i], event_type |-> type]]

\* _load_market_discovery_events: one event per calendar date that has market
\* snapshots, stamped with the first snapshot_ts of the date
LoadMarketDiscoveryEvents(snapshot_times) ==
    LET firsts == {t \in snapshot_times :
                      \A u \in snapshot_times : DateOf(u) = DateOf(t) => t <= u}
    IN  SimEvents(firsts, "MARKET_DISCOVERY")

\* variant of AlignDiscovery: the discovery keeps its snapshot timestamp
KeepDiscoveryClock(disc, all_data_events) == disc

\* the "ensure discovery precedes all other events on each day" block: a
\* discovery whose date has data events takes the earliest wall clock of them
AlignDiscovery(disc, all_data_events) ==
    LET same == {i \in 1..Len(all_data_events) :
                    DateOf(all_data_events[i].wall_clock) = DateOf(disc.wall_clock)}
    IN  IF same = {} THEN disc
        ELSE [disc EXCEPT !.wall_clock =
                 CHOOSE t \in {all_data_events[i].wall_clock : i \in same} :
                     \A i \in same : t <= all_data_events[i].wall_clock]

TypePriority(event_type) ==
    CASE event_type = "MARKET_DISCOVERY" -> 0
      [] event_type = "ORDERBOOK_UPDATE" -> 1
      [] event_type = "WEATHER_OBSERVATION" -> 2

\* key=lambda e: (e.wall_clock, type_priority[e.event_type]), compared as tuples
KeyLeq(a, b) ==
    \/ a.wall_clock < b.wall_clock
    \/ a.wall_clock = b.wall_clock /\ TypePriority(a.event_type) <= TypePriority(b.event_type)

RECURSIVE InsertStable(_, _)
InsertStable(x, sorted) ==
    IF sorted = <<>> THEN << x >>
    ELSE IF KeyLeq(Head(sorted), x) THEN << Head(sorted) >> \o InsertStable(x, Tail(sorted))
    ELSE << x >> \o sorted

RECURSIVE StableSort(_, _)
\* list.sort(key=...): stable
StableSort(events, acc) ==
    IF events = <<>> THEN acc
    ELSE StableSort(Tail(events), InsertStable(Head(events), acc))

\* load_timeline
LoadTimeline(snapshot_times, orderbook_times, weather_times) ==
    LET weather   == SimEvents(weather_times, "WEATHER_OBSERVATION")
        orderbook == SimEvents(orderbook_times, "ORDERBOOK_UPDATE")
        discovery == LoadMarketDiscoveryEvents(snapshot_times)
        all_data_events == orderbook \o weather
        aligned   == IF all_data_events # <<>> /\ discovery # <<>>
                     THEN [i \in 1..Len(discovery) |->
                              AlignDiscovery(discovery[i], all_data_events)]
                     ELSE discovery
    IN  StableSort(aligned \o all_data_events, <<>>)

\* BacktestEngine.run: timeline = self.loader.load_timeline()
EngineLoad ==
    /\ tl_state = "new"
    /\ \E snaps \in SUBSET TlTimes, obt \in SUBSET TlTimes, wt \in SUBSET TlTimes :
          timeline' = LoadTimeline(snaps, obt, wt)
    /\ tl_state' = "loaded"
    /\ UNCHANGED << tl_pos, runVars, obVars, outsideStart >>

\* BacktestEngine.run: one iteration of "for i, sim_event in enumerate(timeline)"
EngineReplay ==
    /\ tl_state = "loaded"
    /\ tl_pos < Len(timeline)
    /\ tl_pos' = tl_pos + 1
    /\ UNCHANGED << tl_state, timeline, runVars, obVars, outsideStart >>

InitTimeline ==
    /\ tl_state = "new"
    /\ timeline = <<>>
    /\ tl_pos = 0

\* ------------------------------------------------------------------------
\* WeatherBot.run: start-up
\* ------------------------------------------------------------------------
\* run(): self._running = True; self._discover(); a REST error raised by
\* _discover leaves run() before any loop is started
RunDiscover ==
    /\ wb_pc = "constructed"
    /\ running' = TRUE
    /\ \/ (\E r \in DiscoverResults : Discover(r)) /\ wb_pc' = "discovered"
       \/ wb_pc' = "failed" /\ UNCHANGED obVars
    /\ UNCHANGED << k_pc, s_pc, r_pc, tlVars, outsideStart >>

\* AsyncService.run: asyncio.gather(*self._get_tasks()) schedules the loops
RunGather ==
    /\ wb_pc = "discovered"
    /\ wb_pc' = "gathered"
    /\ k_pc' = "top"
    /\ s_pc' = "top"
    /\ r_pc' = (IF rediscover_interval > 0 THEN "top" ELSE "done")
    /\ UNCHANGED << running, tlVars, obVars, outsideStart >>

InitRun ==
    /\ rediscover_interval \in {0, 300}
    /\ running = FALSE
    /\ wb_pc = "constructed"
    /\ k_pc = "not_started"
    /\ s_pc = "not_started"
    /\ r_pc = "not_started"

NextStart ==
    \/ EngineLoad
    \/ EngineReplay
    \/ RunDiscover
    \/ RunGather

\* AsyncService.shutdown, installed as the SIGINT / SIGTERM handler by run()
\* (for the exchange and rediscovery loops _on_synoptic_auth's
\* self._running = False is the same step)
Shutdown ==
    /\ wb_pc = "gathered"
    /\ running
    /\ running' = FALSE
    /\ UNCHANGED << wb_pc, k_pc, s_pc, r_pc, wsVars, obVars, outsideWs >>

\* AsyncService.run: gather returns when every loop has returned; finally:
\* self._on_shutdown()
RunFinally ==
    /\ wb_pc = "gathered"
    /\ k_pc = "done"
    /\ s_pc = "done"
    /\ r_pc = "done"
    /\ wb_pc' = "stopped"
    /\ UNCHANGED << running, k_pc, s_pc, r_pc, wsVars, obVars, outsideWs >>

\* ------------------------------------------------------------------------
\* KalshiWSMixin.kalshi_ws_loop
\* ------------------------------------------------------------------------
\* getattr(self, "_kalshi_subscribe_tickers", None) or self.market_tickers
SubscribeList ==
    IF kalshi_subscribe_tickers # <<>> THEN kalshi_subscribe_tickers ELSE market_tickers

\* "market_tickers": subscribe_tickers in the subscribe frame: the local
\* bound at the top of the while body, before the connection is awaited
CapturedList == k_local

\* while self._running: reset the flag, read the list, start connecting.  A
\* scheduled _close_kalshi_ws task is ahead of the loop in the ready queue.
KTop ==
    /\ k_pc = "top"
    /\ ~k_close_task
    /\ IF ~running
       THEN /\ k_pc' = "done"
            /\ UNCHANGED << k_reconnect, k_local, nKConn >>
       ELSE /\ nKConn < MaxConnects
            /\ nKConn' = nKConn + 1
            /\ k_reconnect' = FALSE
            /\ k_local' = SubscribeList
            /\ k_pc' = "connecting"
    /\ UNCHANGED << k_ws, k_frame, k_close_task, k_ack, k_pending, k_served, k_last >>
    /\ UNCHANGED << running, wb_pc, s_pc, r_pc, sVars, rVars, obVars, outsideWs >>

\* websockets.connect succeeded: self._kalshi_ws = ws; one subscribe frame per
\* channel (channels = ["orderbook_delta"])
KConnected ==
    /\ k_pc = "connecting"
    /\ k_ws' = "open"
    /\ k_frame' = [market_tickers |-> CapturedList, tracked |-> SubscribeList]
    /\ IF k_pending # "none" /\ CapturedList = SubscribeList
       THEN k_served' = k_pending /\ k_pending' = "none"
       ELSE UNCHANGED << k_pending, k_served >>
    /\ k_ack' = TRUE
    /\ k_pc' = "reading"
    /\ UNCHANGED << k_reconnect, k_local, k_close_task, nKConn, k_last >>
    /\ UNCHANGED << running, wb_pc, s_pc, r_pc, sVars, rVars, obVars, outsideWs >>

\* except Exception: break when not running, else sleep 10 s; the finally
\* clause runs after the sleep
KExcept ==
    IF ~running
    THEN k_pc' = "done" /\ k_ws' = "none"
    ELSE k_pc' = "sleep" /\ k_ws' = (IF k_ws = "open" THEN "closed" ELSE k_ws)

\* websockets.connect raised (OSError, InvalidStatus, ...)
KConnectError ==
    /\ k_pc = "connecting"
    /\ KExcept
    /\ UNCHANGED << k_reconnect, k_local, k_frame, k_close_task, k_ack, nKConn,
                    k_pending, k_served, k_last >>
    /\ UNCHANGED << running, wb_pc, s_pc, r_pc, sVars, rVars, obVars, outsideWs >>

\* msg = json.loads(raw) raises JSONDecodeError inside "async for": the
\* "async with" block is left (the socket is closed) and except Exception runs
KalshiDecodeError ==
    /\ KExcept
    /\ k_ack' = FALSE

\* variant of KalshiReaderBreaks: the reconnect flag is not looked at
KalshiReaderBreaksOnShutdownOnly == ~running

\* the two checks at the top of the "async for" body
KalshiReaderBreaks == ~running \/ k_reconnect

\* one iteration of "async for raw in ws"
KFrame(frame) ==
    IF KalshiReaderBreaks
    THEN /\ k_pc' = "top"
         /\ k_ws' = "none"
         /\ k_ack' = FALSE
         /\ k_last' = "none"
         /\ UNCHANGED obVars
    ELSE IF ~frame.json
    THEN /\ KalshiDecodeError
         /\ k_last' = "malformed"
         /\ UNCHANGED obVars
    ELSE IF frame.type \notin {"orderbook_snapshot", "orderbook_delta"}
    THEN /\ k_last' = "none"
         /\ k_ack' = FALSE
         /\ UNCHANGED << k_pc, k_ws, obVars >>
    ELSE /\ k_last' = "none"
         /\ UNCHANGED << k_pc, k_ws, k_ack >>
         /\ IF frame.type = "orderbook_snapshot"
            THEN /\ orderbooks' = ApplyOrderbookSnapshot(orderbooks, frame.msg)
                 /\ snapshotted' = snapshotted \cup {frame.msg.market_ticker}
            ELSE /\ orderbooks' = ApplyOrderbookDelta(orderbooks, frame.msg)
                 /\ UNCHANGED snapshotted
         /\ UNCHANGED << market_tickers, market_info, wb_ladder,
                         kalshi_subscribe_tickers, last_msg, nMsgs, nWbDisc >>

\* the server's reply to the subscribe command arrives
KRecvReply ==
    /\ k_pc = "reading"
    /\ k_ws = "open"
    /\ k_ack
    /\ KFrame(SubscribedFrame)
    /\ UNCHANGED << k_reconnect, k_local, k_frame, k_close_task, nKConn, k_pending, k_served >>
    /\ UNCHANGED << running, wb_pc, s_pc, r_pc, sVars, rVars, outsideWs >>

\* a later frame arrives
KRecv ==
    /\ k_pc = "reading"
    /\ k_ws = "open"
    /\ ~k_ack
    /\ \E frame \in WsKalshiFrames : KFrame(frame)
    /\ UNCHANGED << k_reconnect, k_local, k_frame, k_close_task, nKConn, k_pending, k_served >>
    /\ UNCHANGED << running, wb_pc, s_pc, r_pc, sVars, rVars, outsideWs >>

\* _close_kalshi_ws, run as its own task
KCloseTask ==
    /\ k_close_task
    /\ k_close_task' = FALSE
    /\ k_ws' = (IF k_ws = "open" THEN "closed" ELSE k_ws)
    /\ UNCHANGED << k_reconnect, k_local, k_frame, k_ack, nKConn, k_pending, k_served, k_last >>
    /\ UNCHANGED << runVars, sVars, rVars, obVars, outsideWs >>

\* "async for" ends because the connection was closed cleanly, by
\* _close_kalshi_ws or by the peer: the while body is left normally
KIterEnd ==
    /\ k_pc = "reading"
    /\ k_ws \in {"open", "closed"}
    /\ k_pc' = "top"
    /\ k_ws' = "none"
    /\ k_ack' = FALSE
    /\ UNCHANGED << k_reconnect, k_local, k_frame, k_close_task, nKConn, k_pending, k_served, k_last >>
    /\ UNCHANGED << running, wb_pc, s_pc, r_pc, sVars, rVars, obVars, outsideWs >>

\* the connection is lost: except websockets.ConnectionClosed, sleep 5 s
KConnectionClosed ==
    /\ k_pc = "reading"
    /\ k_ws = "open"
    /\ k_pc' = "sleep"
    /\ k_ws' = "closed"
    /\ k_ack' = FALSE
    /\ UNCHANGED << k_reconnect, k_local, k_frame, k_close_task, nKConn, k_pending, k_served, k_last >>
    /\ UNCHANGED << running, wb_pc, s_pc, r_pc, sVars, rVars, obVars, outsideWs >>

\* the backoff sleep ends; finally: self._kalshi_ws = None
KWake ==
    /\ k_pc = "sleep"
    /\ k_pc' = "top"
    /\ k_ws' = "none"
    /\ k_last' = "none"
    /\ UNCHANGED << k_reconnect, k_local, k_frame, k_close_task, k_ack, nKConn,
                    k_pending, k_served >>
    /\ UNCHANGED << running, wb_pc, s_pc, r_pc, sVars, rVars, obVars, outsideWs >>

\* ------------------------------------------------------------------------
\* WeatherBot._rediscover_loop
\* ------------------------------------------------------------------------
\* KalshiWSMixin.request_kalshi_reconnect
RequestKalshiReconnect ==
    /\ k_reconnect' = TRUE
    /\ k_close_task' = (k_close_task \/ k_ws = "open")

RestFailures ==
    {"fail_resolve", "fail_markets", "fail_discover_resolve", "fail_discover_markets"}

\* variant of DiscoverRestFailure: the tracked list is assigned before the
\* REST calls of _discover are made
DiscoverRestFailureAfterAssign(r) ==
    /\ market_tickers' = r.market_tickers
    /\ UNCHANGED << market_info, orderbooks, wb_ladder, kalshi_subscribe_tickers,
                    snapshotted, last_msg, nMsgs, nWbDisc >>

\* _discover raising at resolve_event_tickers or discover_markets: both calls
\* precede the first assignment
DiscoverRestFailure(r) == UNCHANGED obVars

SetOf(sq) == {sq[i] : i \in 1..Len(sq)}

\* while self._running: await asyncio.sleep(self.rediscover_interval)
\* variant of TickersDiffer: every cycle counts as a rollover
TickersDifferAlways(tickers, tracked) == TRUE

\* set(tickers) != set(self.market_tickers)
TickersDiffer(tickers, tracked) == SetOf(tickers) # SetOf(tracked)

RTop ==
    /\ r_pc = "top"
    /\ r_pc' = (IF running THEN "sleeping" ELSE "done")
    /\ r_last' = "none"
    /\ r_tickers' = <<>>
    /\ UNCHANGED << running, wb_pc, k_pc, s_pc, kVars, sVars, obVars, outsideWs >>

\* the sleep ends: one rediscovery cycle (no suspension point in it)
RCycle ==
    /\ r_pc = "sleeping"
    /\ IF ~running
       THEN /\ r_pc' = "done"
            /\ UNCHANGED << wsVars, obVars >>
       ELSE /\ r_pc' = "top"
            /\ UNCHANGED << k_ws, k_local, k_frame, k_ack, nKConn, k_served, k_last, sVars >>
            /\ \/ /\ r_last' \in {"fail_resolve", "fail_markets"}
                  /\ r_tickers' = <<>>
                  /\ UNCHANGED << k_reconnect, k_close_task, k_pending, obVars >>
               \/ \E r1 \in DiscoverResults :
                     IF r1.event_tickers = <<>>
                     THEN /\ r_last' = "unchanged"
                          /\ r_tickers' = <<>>
                          /\ UNCHANGED << k_reconnect, k_close_task, k_pending, obVars >>
                     ELSE /\ r_tickers' = r1.market_tickers
                          /\ IF ~TickersDiffer(r1.market_tickers, market_tickers)
                             THEN /\ r_last' = "unchanged"
                                  /\ UNCHANGED << k_reconnect, k_close_task, k_pending, obVars >>
                             ELSE \/ /\ r_last' \in {"fail_discover_resolve", "fail_discover_markets"}
                                     /\ DiscoverRestFailure(r1)
                                     /\ UNCHANGED << k_reconnect, k_close_task, k_pending >>
                                  \/ /\ r_last' = "changed"
                                     /\ \E r2 \in DiscoverResults : Discover(r2)
                                     /\ RequestKalshiReconnect
                                     /\ k_pending' = k_pc
    /\ UNCHANGED << running, wb_pc, k_pc, s_pc, outsideWs >>

\* ------------------------------------------------------------------------
\* SynopticWSMixin.synoptic_ws_loop
\* ------------------------------------------------------------------------
STop ==
    /\ s_pc = "top"
    /\ IF ~running
       THEN s_pc' = "done" /\ UNCHANGED nSConn
       ELSE /\ nSConn < MaxConnects
            /\ nSConn' = nSConn + 1
            /\ s_pc' = "connecting"
    /\ UNCHANGED << running, wb_pc, k_pc, r_pc, kVars, s_fwd, s_last, auth_failed,
                    rVars, obVars, outsideWs >>

SConnected ==
    /\ s_pc = "connecting"
    /\ s_pc' = "reading"
    /\ UNCHANGED << running, wb_pc, k_pc, r_pc, wsVars, obVars, outsideWs >>

\* except Exception: break when not running, else sleep 10 s
SExcept == s_pc' = (IF ~running THEN "done" ELSE "sleep")

SConnectError ==
    /\ s_pc = "connecting"
    /\ SExcept
    /\ UNCHANGED << running, wb_pc, k_pc, r_pc, wsVars, obVars, outsideWs >>

\* variant of SynopticReaderBreaks: the flag is not looked at in the read loop
SynopticReaderNeverBreaks == FALSE

\* "if not self._running: break" at the top of the "async for" body
SynopticReaderBreaks == ~running

\* one iteration of "async for raw in ws"
SFrame(frame) ==
    IF SynopticReaderBreaks
    THEN /\ s_pc' = "top"
         /\ s_last' = "none"
         /\ UNCHANGED << running, s_fwd, auth_failed >>
    ELSE IF frame = "malformed"
    THEN /\ SExcept
         /\ s_last' = "malformed"
         /\ UNCHANGED << running, s_fwd, auth_failed >>
    ELSE IF frame = "data"
    THEN /\ s_fwd < MaxForwards
         /\ s_fwd' = s_fwd + 1
         /\ s_last' = "none"
         /\ UNCHANGED << running, s_pc, auth_failed >>
    ELSE IF frame = "data_bad_row"
    THEN /\ s_last' = "none"
         /\ UNCHANGED << running, s_pc, s_fwd, auth_failed >>
    ELSE IF frame = "auth_failed"
    THEN /\ running' = FALSE
         /\ auth_failed' = TRUE
         /\ s_last' = "none"
         /\ UNCHANGED << s_pc, s_fwd >>
    ELSE /\ s_last' = "none"
         /\ UNCHANGED << running, s_pc, s_fwd, auth_failed >>

SRecv ==
    /\ s_pc = "reading"
    /\ \E frame \in SynopticFrames : SFrame(frame)
    /\ UNCHANGED << wb_pc, k_pc, r_pc, kVars, nSConn, rVars, obVars, outsideWs >>

SPeerClose ==
    /\ s_pc = "reading"
    /\ \E clean \in BOOLEAN : s_pc' = (IF clean THEN "top" ELSE "sleep")
    /\ UNCHANGED << running, wb_pc, k_pc, r_pc, wsVars, obVars, outsideWs >>

SWake ==
    /\ s_pc = "sleep"
    /\ s_pc' = "top"
    /\ s_last' = "none"
    /\ UNCHANGED << running, wb_pc, k_pc, r_pc, kVars, nSConn, s_fwd, auth_failed,
                    rVars, obVars, outsideWs >>

InitWs ==
    /\ k_reconnect = FALSE
    /\ k_ws = "none"
    /\ k_local = <<>>
    /\ k_frame = [market_tickers |-> <<>>, tracked |-> <<>>]
    /\ k_close_task = FALSE
    /\ k_ack = FALSE
    /\ nKConn = 0
    /\ k_pending = "none"
    /\ k_served = "none"
    /\ k_last = "none"
    /\ nSConn = 0
    /\ s_fwd = 0
    /\ s_last = "none"
    /\ auth_failed = FALSE
    /\ r_last = "none"
    /\ r_tickers = <<>>

\* the exchange loop and the rediscovery loop of a running bot
NextWs ==
    \/ RunDiscover
    \/ RunGather
    \/ Shutdown
    \/ KTop
    \/ KConnected
    \/ KConnectError
    \/ KCloseTask
    \/ KIterEnd
    \/ KRecvReply
    \/ KRecv
    \/ KConnectionClosed
    \/ KWake
    \/ RTop
    \/ RCycle

\* the two feed loops of a bot configured with rediscover_interval_seconds 0
NextFeeds ==
    \/ RunDiscover
    \/ RunGather
    \/ Shutdown
    \/ RunFinally
    \/ KTop
    \/ KConnected
    \/ KConnectError
    \/ KRecvReply
    \/ KRecv
    \/ KIterEnd
    \/ KConnectionClosed
    \/ KWake
    \/ STop
    \/ SConnected
    \/ SConnectError
    \/ SRecv
    \/ SPeerClose
    \/ SWake

\* the event loop runs every task that is ready; a started connection attempt
\* ends; sleeps end; the server replies to a subscribe command.  Nothing is
\* assumed about later frames, about the peer closing, or about signals.
FairWs ==
    /\ WF_vars(RunGather)
    /\ WF_vars(KTop)
    /\ WF_vars(KConnected \/ KConnectError)
    /\ WF_vars(KRecvReply)
    /\ WF_vars(KCloseTask)
    /\ WF_vars(k_ws = "closed" /\ KIterEnd)
    /\ WF_vars(KWake)
    /\ WF_vars(RTop)
    /\ WF_vars(RCycle)

FairFeeds ==
    /\ WF_vars(RunGather)
    /\ WF_vars(RunFinally)
    /\ WF_vars(KTop)
    /\ WF_vars(KConnected \/ KConnectError)
    /\ WF_vars(KRecvReply)
    /\ WF_vars(KWake)
    /\ WF_vars(STop)
    /\ WF_vars(SConnected \/ SConnectError)
    /\ WF_vars(SWake)

\* ------------------------------------------------------------------------
\* LiveCollector: baseline / delta snapshots and their replay
\* ------------------------------------------------------------------------
MaxLcMsgs == 3
MaxSnapshots == 3

\* LiveCollector.market_tickers after _discover
LcTickers == << T1, T2 >>

\* "msg" bodies of the orderbook messages the collector receives
LcMsgData ==
    [market_ticker : {T1, T2},
     yes : { << <<48, 2>> >>, << <<48, 0>> >>, << <<47, 3>>, <<48, 1>> >> },
     no  : { << >>, << <<52, 1>> >> }]

\* {int(p): float(q) for p, q in ob[side].items() if q > 0}
PositiveLevels(side) ==
    [p \in { q \in DOMAIN side : side[q] > 0 } |-> side[p]]

\* self.orderbooks.get(tk, {"yes": {}, "no": {}})
BookOf(obs, tk) == IF tk \in DOMAIN obs THEN obs[tk] ELSE EmptyBook

\* one side of a book by the name stored in the "side" column
SideOf(book, side) == IF side = "yes" THEN book.yes ELSE book.no

\* _mark_all_dirty: every price of the ticker's current book
MarkAllDirty(dirty, obs, tk) ==
    LET ob == BookOf(obs, tk)
    IN  [t \in DOMAIN dirty \cup {tk} |->
            IF t = tk THEN [yes |-> DOMAIN ob.yes, no |-> DOMAIN ob.no]
            ELSE dirty[t]]

\* on_kalshi_message, orderbook_delta: the prices the message names
MarkDirty(dirty, data) ==
    LET tk  == data.market_ticker
        old == IF tk \in DOMAIN dirty THEN dirty[tk] ELSE [yes |-> {}, no |-> {}]
    IN  [t \in DOMAIN dirty \cup {tk} |->
            IF t = tk
            THEN [yes |-> old.yes \cup { data.yes[i][1] : i \in 1..Len(data.yes) },
                  no  |-> old.no \cup { data.no[i][1] : i \in 1..Len(data.no) }]
            ELSE dirty[t]]

\* rows of one ticker and side in a baseline snapshot
BaselineRows(ts, tk, side, ob) ==
    LET cur == PositiveLevels(SideOf(ob, side))
    IN  { [snapshot_ts |-> ts, market_ticker |-> tk, side |-> side,
           price_cents |-> p, quantity |-> cur[p], snapshot_type |-> "baseline"] :
          p \in DOMAIN cur }

\* rows of one ticker and side in a delta snapshot
DeltaRows(ts, tk, side, ob, dirty, prev_ob) ==
    LET cur     == PositiveLevels(SideOf(ob, side))
        prev    == SideOf(prev_ob, side)
        removed == DOMAIN prev \ DOMAIN cur
        changed_prices == SideOf(dirty, side) \cup removed
        qty(p)     == IF p \in DOMAIN cur THEN cur[p] ELSE 0
        old_qty(p) == IF p \in DOMAIN prev THEN prev[p] ELSE 0
    IN  { [snapshot_ts |-> ts, market_ticker |-> tk, side |-> side,
           price_cents |-> p, quantity |-> qty(p), snapshot_type |-> "delta"] :
          p \in { c \in changed_prices : qty(c) # old_qty(c) } }

\* the rows _take_snapshot appends to _ob_buf
SnapshotRows(ts, is_baseline, obs, dirty, last_ob) ==
    UNION { IF is_baseline
            THEN BaselineRows(ts, LcTickers[i], side, BookOf(obs, LcTickers[i]))
            ELSE DeltaRows(ts, LcTickers[i], side, BookOf(obs, LcTickers[i]),
                           IF LcTickers[i] \in DOMAIN dirty THEN dirty[LcTickers[i]]
                           ELSE [yes |-> {}, no |-> {}],
                           BookOf(last_ob, LcTickers[i])) :
            i \in 1..Len(LcTickers), side \in {"yes", "no"} }

\* the collector's books reduced to their levels with qty > 0
PositiveBooks(obs) ==
    [tk \in { LcTickers[i] : i \in 1..Len(LcTickers) } |->
        [yes |-> PositiveLevels(BookOf(obs, tk).yes),
         no  |-> PositiveLevels(BookOf(obs, tk).no)]]

\* kalshi_ws_loop of the collector, orderbook_snapshot: the mixin applies the
\* message, then on_kalshi_message marks the ticker's levels dirty
LcSnapshotMsg ==
    \E data \in LcMsgData :
        /\ nLcMsgs < MaxLcMsgs
        /\ nLcMsgs' = nLcMsgs + 1
        /\ lc_orderbooks' = ApplyOrderbookSnapshot(lc_orderbooks, data)
        /\ lc_dirty_levels' = MarkAllDirty(lc_dirty_levels, lc_orderbooks',
                                           data.market_ticker)
        /\ UNCHANGED << lc_baseline_every, lc_snapshot_count, lc_last_ob, lc_ob_rows,
                        lc_taken, outsideCollector >>

\* orderbook_delta
LcDeltaMsg ==
    \E data \in LcMsgData :
        /\ nLcMsgs < MaxLcMsgs
        /\ nLcMsgs' = nLcMsgs + 1
        /\ lc_orderbooks' = ApplyOrderbookDelta(lc_orderbooks, data)
        /\ lc_dirty_levels' = MarkDirty(lc_dirty_levels, data)
        /\ UNCHANGED << lc_baseline_every, lc_snapshot_count, lc_last_ob, lc_ob_rows,
                        lc_taken, outsideCollector >>

\* _take_snapshot, from _snapshot_loop ("periodic") or from
\* _maybe_snapshot_on_spike ("spike"); max_orderbook_depth is 0, so _trim_ob
\* only sorts. The timestamp is the number of the snapshot.
TakeSnapshot(trigger) ==
    /\ lc_snapshot_count < MaxSnapshots
    /\ LET count == lc_snapshot_count + 1
           is_baseline == lc_baseline_every <= 1 \/ count % lc_baseline_every = 1
       IN  /\ lc_snapshot_count' = count
           /\ lc_ob_rows' = lc_ob_rows \cup
                  SnapshotRows(count, is_baseline, lc_orderbooks, lc_dirty_levels,
                               lc_last_ob)
           /\ lc_last_ob' = PositiveBooks(lc_orderbooks)
           /\ lc_taken' = Append(lc_taken, [trigger |-> trigger,
                                            books |-> PositiveBooks(lc_orderbooks)])
    /\ lc_dirty_levels' = << >>
    /\ UNCHANGED << lc_baseline_every, lc_orderbooks, nLcMsgs, outsideCollector >>

\* one side of a ticker's book after a baseline: book[tk][side][price] = qty
BaselineSide(rs) ==
    [p \in { r.price_cents : r \in rs } |->
        (CHOOSE r \in rs : r.price_cents = p).quantity]

\* one side after the delta rows rs of a timestamp: quantity 0 pops the
\* price, any other quantity is stored
ReplaySide(old, rs) ==
    [p \in (DOMAIN old \ { r.price_cents : r \in { x \in rs : x.quantity = 0 } })
           \cup { r.price_cents : r \in { x \in rs : x.quantity # 0 } } |->
        IF \E r \in rs : r.price_cents = p
        THEN (CHOOSE r \in rs : r.price_cents = p).quantity
        ELSE old[p]]

\* reconstruct_orderbooks, the body of "for ts in timestamps" up to the
\* output rows: a baseline resets the tickers it has rows for, a delta is
\* applied row by row to the tickers it names
ReplayTimestamp(book, snap) ==
    LET tks == { r.market_ticker : r \in snap }
        snap_type == (CHOOSE r \in snap : TRUE).snapshot_type
        rowsOf(tk, side) == { r \in snap : r.market_ticker = tk /\ r.side = side }
    IN  [tk \in DOMAIN book \cup tks |->
            IF tk \notin tks THEN book[tk]
            ELSE IF snap_type = "baseline"
            THEN [yes |-> BaselineSide(rowsOf(tk, "yes")),
                  no  |-> BaselineSide(rowsOf(tk, "no"))]
            ELSE [yes |-> ReplaySide(BookOf(book, tk).yes, rowsOf(tk, "yes")),
                  no  |-> ReplaySide(BookOf(book, tk).no, rowsOf(tk, "no"))]]

\* the rows emitted for one timestamp: every level with qty > 0 of every
\* ticker in book
ReconstructedRows(ts, book) ==
    UNION { { [snapshot_ts |-> ts, market_ticker |-> tk, side |-> side,
               price_cents |-> p, quantity |-> SideOf(book[tk], side)[p]] :
              p \in DOMAIN PositiveLevels(SideOf(book[tk], side)) } :
            tk \in DOMAIN book, side \in {"yes", "no"} }

RECURSIVE Reconstruct(_, _, _, _)
\* reconstruct_orderbooks: the timestamps of raw in ascending order, from ts
\* on, with the book and the output rows so far
Reconstruct(raw, ts, book, rows) ==
    IF \A r \in raw : r.snapshot_ts < ts THEN rows
    ELSE LET snap == { r \in raw : r.snapshot_ts = ts }
         IN  IF snap = {} THEN Reconstruct(raw, ts + 1, book, rows)
             ELSE LET after == ReplayTimestamp(book, snap)
                  IN  Reconstruct(raw, ts + 1, after,
                                  rows \cup ReconstructedRows(ts, after))

ReconstructOrderbooks(raw) == Reconstruct(raw, 1, << >>, {})

\* the collector once run() has called _discover: an empty book per ticker,
\* nothing snapshotted
LcDiscovered ==
    /\ lc_orderbooks = [tk \in { LcTickers[i] : i \in 1..Len(LcTickers) } |-> EmptyBook]
    /\ lc_snapshot_count = 0
    /\ lc_last_ob = << >>
    /\ lc_dirty_levels = << >>
    /\ lc_ob_rows = {}
    /\ lc_taken = << >>
    /\ nLcMsgs = 0

\* collection.baseline_every_n_snapshots
InitCollector == LcDiscovered /\ lc_baseline_every \in {1, 2, 3}

NextCollector ==
    \/ LcSnapshotMsg
    \/ LcDeltaMsg
    \/ \E trigger \in {"periodic", "spike"} : TakeSnapshot(trigger)

\* ------------------------------------------------------------------------
\* Specifications: the components a specification does not exercise are
\* constructed with their default configuration
\* ------------------------------------------------------------------------
IdleExec == InitExec /\ ex_cfg.paper_mode

IdleLadder == InitLadder /\ params.consecutive_obs = 2

IdleBus == InitBus /\ bus_kind = "EventBus"

\* rollover.get("rediscover_interval_seconds", 300)
IdleRun == InitRun /\ rediscover_interval = 300

\* no operation is applied on its own
NoCall == [fn |-> "none"]

NotReturned == [done |-> FALSE]

IdleCall == op_call = NoCall /\ op_result = NotReturned

\* ccfg.get("baseline_every_n_snapshots", 60)
IdleCollector == LcDiscovered /\ lc_baseline_every = 60

InitSpecExec == InitExec /\ IdleLadder /\ InitOB /\ InitPipe /\ IdleBus /\ InitTimeline /\ IdleRun /\ InitWs /\ IdleCall /\ IdleCollector

InitSpecLadder == IdleExec /\ InitLadder /\ InitOB /\ InitPipe /\ IdleBus /\ InitTimeline /\ IdleRun /\ InitWs /\ IdleCall /\ IdleCollector

InitSpecOB == IdleExec /\ IdleLadder /\ InitOB /\ InitPipe /\ IdleBus /\ InitTimeline /\ IdleRun /\ InitWs /\ IdleCall /\ IdleCollector

InitSpecPipe == IdleExec /\ InitLadder /\ InitOB /\ InitPipe /\ IdleBus /\ InitTimeline /\ IdleRun /\ InitWs /\ IdleCall /\ IdleCollector

InitSpecBus == IdleExec /\ IdleLadder /\ InitOB /\ InitPipe /\ InitBus /\ InitTimeline /\ IdleRun /\ InitWs /\ IdleCall /\ IdleCollector

InitSpecStart == IdleExec /\ IdleLadder /\ InitOB /\ InitPipe /\ IdleBus /\ InitTimeline /\ IdleRun /\ InitWs /\ IdleCall /\ IdleCollector

InitSpecFeeds == IdleExec /\ IdleLadder /\ InitOB /\ InitPipe /\ IdleBus /\ InitTimeline /\ InitRun /\ rediscover_interval = 0 /\ InitWs /\ IdleCall /\ IdleCollector

SpecExec == InitSpecExec /\ [][NextExec]_vars

SpecLadder == InitSpecLadder /\ [][NextLadder]_vars

SpecOB == InitSpecOB /\ [][NextOB]_vars

SpecPipe == InitSpecPipe /\ [][NextPipe]_vars

SpecBus == InitSpecBus /\ [][NextBus]_vars

SpecStart == InitSpecStart /\ [][NextStart]_vars

SpecWs == InitSpecStart /\ [][NextWs]_vars

SpecWsLive == InitSpecStart /\ [][NextWs]_vars /\ FairWs

SpecFeeds == InitSpecFeeds /\ [][NextFeeds]_vars

SpecFeedsLive == InitSpecFeeds /\ [][NextFeeds]_vars /\ FairFeeds

\* ------------------------------------------------------------------------
\* Properties of the execution managers
\* ------------------------------------------------------------------------
Last(s) == s[Len(s)]

RECURSIVE SumFills(_, _)
\* sum of total_cost_cents over the fills recorded for key k
SumFills(fills, k) ==
    IF fills = <<>> THEN 0
    ELSE (IF << Head(fills).strategy_id, Head(fills).event_ticker >> = k
          THEN Head(fills).total_cost_cents ELSE 0) + SumFills(Tail(fills), k)

\* C1 (as claimed): for every key whose last intent is capped, the fills of the
\* key sum to at most that intent's max_spend_cents, whatever the earlier
\* intents of the key were.
C1_BudgetBoundAnyHistory ==
    \A k \in Keys :
        (intent_log[k] # <<>> /\ Last(intent_log[k]) > 0)
            => SumFills(bt_fills, k) <= Last(intent_log[k])

\* C1 (amended): for every key whose last intent is capped and none of whose
\* earlier intents was uncapped or carried a larger cap, the fills of the key
\* sum to at most the last intent's max_spend_cents.
C1_BudgetBound ==
    \A k \in Keys :
        ( /\ intent_log[k] # <<>>
          /\ Last(intent_log[k]) > 0
          /\ \A i \in 1..Len(intent_log[k]) :
                 intent_log[k][i] > 0 /\ intent_log[k][i] <= Last(intent_log[k]) )
            => SumFills(bt_fills, k) <= Last(intent_log[k])

\* two capped intents on one key, the second with the larger cap, both filled
C1_Witness ==
    \E k \in Keys :
        /\ intent_log[k] = <<60, 110>>
        /\ SumFills(bt_fills, k) = 104
        /\ Len(bt_fills) = 2

\* the takes of a sweep respect the intent's price bound and come from the
\* opposite side's bids at implied price 100 - bid
TakesWithinPrice(sw) ==
    \A i \in 1..Len(sw.takes) :
        /\ sw.takes[i].price <= sw.intent.max_price_cents
        /\ sw.takes[i].qty > 0
        /\ \E p \in DOMAIN sw.opp :
               /\ 100 - p = sw.takes[i].price
               /\ sw.takes[i].qty <= sw.opp[p]

\* C4: every level that contributes contracts to a fill has implied price
\* (100 minus the opposite-side bid) <= intent.max_price_cents, in the backtest
\* and in the production manager.
C4_SweepPriceBound ==
    nIntents > 0 => (TakesWithinPrice(bt_sweep) /\ TakesWithinPrice(ex_sweep))

\* a sweep that filled while a level priced above max_price_cents was available
C4_Witness ==
    /\ nIntents > 0
    /\ bt_sweep.takes # <<>>
    /\ ex_sweep.takes # <<>>
    /\ \E p \in DOMAIN bt_sweep.opp :
           bt_sweep.opp[p] > 0 /\ 100 - p > bt_sweep.intent.max_price_cents

TakenAt(sw, price) ==
    SeqSum([i \in 1..Len(sw.takes) |->
               IF sw.takes[i].price = price THEN sw.takes[i].qty ELSE 0])

CostUpTo(sw, price) ==
    SeqSum([i \in 1..Len(sw.takes) |->
               IF sw.takes[i].price <= price THEN sw.takes[i].qty * sw.takes[i].price ELSE 0])

BestFirst(sw) ==
    \* levels: the opposite side's positive bids at 100 - price, ascending
    /\ \A p \in DOMAIN sw.opp :
           sw.opp[p] > 0 =>
               \E j \in 1..Len(sw.levels) :
                   sw.levels[j] = [price |-> 100 - p, qty |-> sw.opp[p]]
    /\ \A j \in 1..Len(sw.levels) :
           \E p \in DOMAIN sw.opp :
               sw.opp[p] > 0 /\ sw.levels[j] = [price |-> 100 - p, qty |-> sw.opp[p]]
    /\ \A j \in 1..(Len(sw.levels) - 1) : sw.levels[j].price < sw.levels[j + 1].price
    \* takes are emitted in non-decreasing price order
    /\ \A i \in 1..(Len(sw.takes) - 1) : sw.takes[i].price <= sw.takes[i + 1].price
    \* a cheaper level is either exhausted or beyond what the budget left could buy
    /\ \A i \in 1..Len(sw.takes) : \A j \in 1..Len(sw.levels) :
           sw.levels[j].price < sw.takes[i].price =>
               \/ TakenAt(sw, sw.levels[j].price) = sw.levels[j].qty
               \/ /\ sw.budget >= 0
                  /\ sw.budget - CostUpTo(sw, sw.levels[j].price) < sw.levels[j].price

\* C5: within one intent the sweep consumes the opposite side's bids, mapped
\* to (100 - price, qty) and sorted ascending, in non-decreasing price, and
\* takes nothing from a level while a strictly cheaper level has quantity left
\* that the remaining budget could have bought.
C5_SweepBestFirst ==
    nIntents > 0 => (BestFirst(bt_sweep) /\ BestFirst(ex_sweep))

\* a sweep that took contracts from two price levels
C5_Witness ==
    /\ nIntents > 0
    /\ Len(bt_sweep.takes) = 2
    /\ Len(ex_sweep.takes) = 2
    /\ bt_sweep.takes[1].price < bt_sweep.takes[2].price

\* C9 (as claimed): for each intent the production manager and the backtest
\* manager produce the same fill: same market_ticker, contracts_filled and
\* total_cost_cents, also when max_spend_cents > 0.
C9_SameFills ==
    nIntents > 0 =>
        /\ bt_sweep.intent.market_ticker = ex_sweep.intent.market_ticker
        /\ TakesContracts(bt_sweep.takes) = TakesContracts(ex_sweep.takes)
        /\ TakesCost(bt_sweep.takes) = TakesCost(ex_sweep.takes)

\* ------------------------------------------------------------------------
\* Properties of LadderStrategy
\* ------------------------------------------------------------------------
NewIntentFor(tk) ==
    \E i \in (Len(published) + 1)..Len(published') : published'[i].market_ticker = tk

\* C2: once an entry's executed flag is true, and until the next
\* on_market_discovery rebuilds the ladder, the entry stays in the ladder with
\* executed true and no further OrderIntent is published for it, whatever
\* observations arrive.
C2_MonotoneExecution ==
    [][ \A i \in 1..Len(ladder) :
          (ladder[i].executed /\ nDisc' = nDisc) =>
              /\ Len(ladder') = Len(ladder)
              /\ ladder'[i].ticker = ladder[i].ticker
              /\ ladder'[i].executed
              /\ ~NewIntentFor(ladder[i].ticker) ]_vars

\* an executed entry saw a third consecutive in-window observation at or above
\* its trigger and still has exactly one intent
C2_Witness ==
    /\ nDisc = 1
    /\ \E i \in 1..Len(ladder) :
           /\ ladder[i].executed
           /\ Len(weather_history[ladder[i].station]) = 3
           /\ \A j \in 1..3 :
                  /\ weather_history[ladder[i].station][j].temp >= ladder[i].trigger_temp
                  /\ weather_history[ladder[i].station][j].ob_time >= ladder[i].nws_start
                  /\ weather_history[ladder[i].station][j].ob_time <= ladder[i].nws_end
           /\ Cardinality({j \in 1..Len(published) :
                              published[j].market_ticker = ladder[i].ticker}) = 1

\* the trigger condition of the claim, stated on the indices of the history:
\* the last ConsecutiveObsRequired in-window observations exist and each is at
\* or above the trigger
ClaimedTrigger(info, station, history) ==
    LET valid == {j \in 1..Len(history) :
                     info.nws_start <= history[j].ob_time /\ history[j].ob_time <= info.nws_end}
    IN  /\ info.station = station
        /\ ~info.executed
        /\ Cardinality(valid) >= ConsecutiveObsRequired
        /\ \E recent \in SUBSET valid :
               /\ Cardinality(recent) = ConsecutiveObsRequired
               /\ \A j \in recent : \A k \in valid \ recent : k < j
               /\ \A j \in recent : history[j].temp >= info.trigger_temp

\* C3: on a weather observation for station S an OrderIntent is published for
\* a ladder entry exactly when the entry's station is S, it is not executed,
\* and the last consecutive_obs observations of S's history inside
\* [nws_start, nws_end] (both ends included) exist and are all >= trigger_temp;
\* every observation of a tracked station is stored.
C3_TriggerExactly ==
    [][ nObs' # nObs =>
          /\ \A i \in 1..Len(ladder) :
                 NewIntentFor(ladder[i].ticker) <=>
                     /\ last_obs'.station \in DOMAIN weather_history
                     /\ ClaimedTrigger(ladder[i], last_obs'.station,
                                       weather_history'[last_obs'.station])
          /\ last_obs'.station \in DOMAIN weather_history =>
                 /\ Len(weather_history'[last_obs'.station])
                        = Len(weather_history[last_obs'.station]) + 1
                 /\ weather_history'[last_obs'.station][Len(weather_history'[last_obs'.station])]
                        = [ob_time |-> last_obs'.ob_time, temp |-> last_obs'.temp] ]_vars

\* an intent was published on two observations equal to the trigger, the
\* second at exactly nws_end, with an out-of-window observation stored between
C3_Witness ==
    \E i \in 1..Len(ladder) :
        LET h == weather_history[ladder[i].station]
        IN  /\ params.consecutive_obs = 2
            /\ ladder[i].executed
            /\ Len(h) = 3
            /\ h[1].temp = ladder[i].trigger_temp /\ h[1].ob_time = ladder[i].nws_start
            /\ h[2].ob_time > ladder[i].nws_end
            /\ h[3].temp = ladder[i].trigger_temp /\ h[3].ob_time = ladder[i].nws_end
            /\ published # <<>>
            /\ published[Len(published)].market_ticker = ladder[i].ticker

\* C8: immediately after the strategy has handled a MarketDiscoveryEvent the
\* weather history of every station it targets is empty.
C8_HistoryReset ==
    [][ nDisc' # nDisc =>
          /\ DOMAIN weather_history' = TargetStations
          /\ \A st \in TargetStations : weather_history'[st] = <<>> ]_vars

\* a second discovery handled after observations had triggered an intent
C8_Witness ==
    /\ nDisc = 2
    /\ nObs >= 2
    /\ published # <<>>
    /\ \A st \in TargetStations : weather_history[st] = <<>>

\* C10 (as claimed): every published OrderIntent carries side "no", the
\* triggered market_ticker, the instance's max_price_cents and max_spend_cents,
\* the station, the series and the event_ticker of the triggered contract.
C10_IntentFields ==
    \A i \in 1..Len(published) :
        LET it == published[i]
        IN  /\ it.strategy_id = StrategyId
            /\ it.side = "no"
            /\ it.market_ticker \in {T1, T2, T3}
            /\ it.max_price_cents = params.max_price_cents
            /\ it.max_spend_cents = params.max_spend_per_event_cents
            /\ it.event_ticker = InfoOf(it.market_ticker).event_ticker
            /\ it.series = SeriesPrefixOf(InfoOf(it.market_ticker).event_ticker)
            /\ it.station = KalshiMarketRegistry[it.series].synoptic_station

\* ------------------------------------------------------------------------
\* Properties of the in-memory orderbooks
\* ------------------------------------------------------------------------
\* C6 (as claimed): after any sequence of orderbook_snapshot and
\* orderbook_delta messages every level stored in every in-memory orderbook
\* has quantity > 0.
C6_StoredQtyPositive ==
    \A tk \in DOMAIN orderbooks :
        /\ \A p \in DOMAIN orderbooks[tk].yes : orderbooks[tk].yes[p] > 0
        /\ \A p \in DOMAIN orderbooks[tk].no : orderbooks[tk].no[p] > 0

\* C7 (as claimed): an orderbook_delta for a ticker that has not received an
\* orderbook_snapshot leaves every stored book exactly as it was.
C7_DeltaBeforeSnapshotIgnored ==
    [][ ( /\ nMsgs' # nMsgs
          /\ last_msg'.type = "orderbook_delta"
          /\ last_msg'.msg.market_ticker \notin snapshotted )
        => orderbooks' = orderbooks ]_vars

\* ------------------------------------------------------------------------
\* Properties of the strategy-to-execution pipeline
\* ------------------------------------------------------------------------
\* event of the contract a fill was made on
FillEvent(f) == InfoOf(f.market_ticker).event_ticker

\* C11 (as claimed): for fills that result from ladder triggers the first fill
\* on a contract of an event reports a cumulative spend
\* (strategy_event_spent_cents) equal to its own cost, also after a rollover
\* from another event's contracts.
C11_SpendTalliedPerEvent ==
    \A i \in 1..Len(bt_fills) :
        ( /\ bt_fills[i].strategy_id = StrategyId
          /\ \A j \in 1..(i - 1) : FillEvent(bt_fills[j]) # FillEvent(bt_fills[i]) )
        => bt_fills[i].strategy_event_spent_cents = bt_fills[i].total_cost_cents

\* ------------------------------------------------------------------------
\* Properties of the event buses
\* ------------------------------------------------------------------------
\* number of times handler h ran for event id
CallCount(h, id) ==
    Cardinality({k \in 1..Len(bus_calls) : bus_calls[k] = [handler |-> h, id |-> id]})

\* nothing is waiting to be dispatched
BusQuiescent == bus_tasks = <<>>

\* C12 (as claimed): once dispatch has finished, every handler subscribed to
\* the type of a published event has been invoked exactly once for it, and
\* each handler saw its events in publish order - also for events published
\* by handlers during dispatch (no handler raising an exception of its own).
C12_DeliveredOnceInOrder ==
    (BusQuiescent /\ bus_failed = {}) =>
        /\ \A e \in 1..Len(bus_pub) :
               \A i \in 1..Len(Subscribers[bus_pub[e].type]) :
                   CallCount(Subscribers[bus_pub[e].type][i], bus_pub[e].id) = 1
        /\ \A k1, k2 \in 1..Len(bus_calls) :
               (k1 < k2 /\ bus_calls[k1].handler = bus_calls[k2].handler)
                   => bus_calls[k1].id < bus_calls[k2].id

\* C13 (as claimed): when a handler raises while an event is delivered, every
\* other handler subscribed to that event type still receives the event.
C13_FailureIsolated ==
    (BusQuiescent /\ bus_nested = {}) =>
        \A c \in bus_failed :
            \A i \in 1..Len(Subscribers[bus_pub[c.id].type]) :
                CallCount(Subscribers[bus_pub[c.id].type][i], c.id) = 1

\* ------------------------------------------------------------------------
\* Properties of start-up ordering
\* ------------------------------------------------------------------------
\* C14: in the backtest every orderbook or weather event that has been
\* published was preceded by the discovery event of its calendar date, when
\* the timeline has one (ties: discovery, then orderbook, then weather); in
\* production no feed loop has started before run()'s _discover returned.
C14_DiscoveryFirst ==
    /\ \A i \in 1..tl_pos :
           timeline[i].event_type # "MARKET_DISCOVERY" =>
               \A j \in 1..Len(timeline) :
                   ( /\ timeline[j].event_type = "MARKET_DISCOVERY"
                     /\ DateOf(timeline[j].wall_clock) = DateOf(timeline[i].wall_clock) )
                   => j < i
    /\ \A i, j \in 1..Len(timeline) :
           ( /\ i < j
             /\ timeline[i].wall_clock = timeline[j].wall_clock )
           => TypePriority(timeline[i].event_type) <= TypePriority(timeline[j].event_type)
    /\ (k_pc # "not_started" \/ s_pc # "not_started") => (wb_pc = "gathered" /\ nWbDisc >= 1)

\* the whole of a timeline was replayed in which a weather row, an orderbook
\* row and the first market snapshot of a date share one wall clock, and the
\* production loops were started after a discovery
C14_Witness ==
    /\ tl_state = "loaded"
    /\ tl_pos = Len(timeline)
    /\ \E i \in 1..(Len(timeline) - 2) :
           /\ timeline[i].event_type = "MARKET_DISCOVERY"
           /\ timeline[i + 1].event_type = "ORDERBOOK_UPDATE"
           /\ timeline[i + 2].event_type = "WEATHER_OBSERVATION"
           /\ timeline[i].wall_clock = timeline[i + 2].wall_clock
           /\ timeline[i].wall_clock = timeline[i + 1].wall_clock
    /\ k_pc = "top"
    /\ s_pc = "top"
    /\ market_tickers # <<>>

\* ------------------------------------------------------------------------
\* Properties of the websocket loops
\* ------------------------------------------------------------------------
\* the model's bound on connection attempts stops the exchange loop
ConnectsExhausted == k_pc = "top" /\ nKConn >= MaxConnects

C16_FrameCarriesCurrentList == k_frame.market_tickers = k_frame.tracked

\* C17: a rediscovery cycle in which a REST call fails leaves tickers, market
\* info, ladder, orderbooks and subscription list as they were, requests no
\* reconnect, and the loop goes back to its sleep.
C17_RestFailureAborts ==
    [][ (r_pc = "sleeping" /\ r_last' \in RestFailures) =>
          /\ UNCHANGED << market_tickers, market_info, wb_ladder, orderbooks,
                          kalshi_subscribe_tickers >>
          /\ k_reconnect' = k_reconnect
          /\ k_close_task' = k_close_task
          /\ k_pending' = k_pending
          /\ r_pc' = "top" ]_vars

\* a REST call inside _discover failed while a snapshot-filled orderbook and a
\* ladder were in place
C17_Witness ==
    /\ r_last = "fail_discover_markets"
    /\ r_pc = "top"
    /\ running
    /\ wb_ladder # <<>>
    /\ \E tk \in DOMAIN orderbooks : orderbooks[tk] # EmptyBook

\* C18: once shutdown() has cleared the running flag, every loop exits and
\* _on_shutdown runs.
C18_ShutdownCompletes ==
    (wb_pc = "gathered" /\ ~running /\ ~auth_failed) ~> (wb_pc = "stopped")

\* C19: handling an undecodable frame leaves the connection open and the
\* reader reading, with the orderbooks unchanged, on both feeds.
C19_MalformedFrameDropped ==
    [][ /\ (k_last = "none" /\ k_last' = "malformed") =>
              (k_pc' = "reading" /\ k_ws' = "open" /\ orderbooks' = orderbooks)
        /\ (s_last = "none" /\ s_last' = "malformed") => s_pc' = "reading" ]_vars

MaxRows == 3

ParsableDate == "2026-02-21 05:00:00"

NumericValue == "42.0"

\* the "stid", "date" and "value" fields of a row as the feed sends them
SynopticRows ==
    [stid : {"KMDW1M", "KNYC"},
     date : {ParsableDate, "2026-02-21T05:00:00Z"},
     value : {NumericValue, "M"}]

DataFrames == UNION { [1..n -> SynopticRows] : n \in 0..MaxRows }

\* datetime.strptime(d.get("date"), "%Y-%m-%d %H:%M:%S"): the hour of the day,
\* or a ValueError
Strptime(date) ==
    IF date = ParsableDate THEN [raised |-> FALSE, hour |-> 5] ELSE [raised |-> TRUE]

\* float(d.get("value")): the number (in degrees), or a ValueError
Float(value) ==
    IF value = NumericValue THEN [raised |-> FALSE, number |-> 42] ELSE [raised |-> TRUE]

\* the body of the per-row "try": the row handed to on_synoptic_observation,
\* or the exception that one of the two conversions raised
SynopticRow(d) ==
    LET ob_dt == Strptime(d.date)
        value == Float(d.value)
    IN  IF ob_dt.raised \/ value.raised
        THEN [raised |-> TRUE]
        ELSE [raised |-> FALSE,
              row |-> [ob_timestamp |-> ob_dt.hour, stid |-> d.stid,
                       sensor |-> "", value |-> value.number]]

RECURSIVE SynopticDataNoRowTry(_, _)
\* variant of SynopticData: the conversions run outside any per-row "try",
\* so the first bad row raises out of the frame's loop
SynopticDataNoRowTry(data, forwarded) ==
    IF data = <<>> THEN [forwarded |-> forwarded, raised |-> FALSE]
    ELSE LET r == SynopticRow(Head(data))
         IN  IF r.raised
             THEN [forwarded |-> forwarded, raised |-> TRUE]
             ELSE SynopticDataNoRowTry(Tail(data), Append(forwarded, r.row))

RECURSIVE SynopticData(_, _)
\* "for d in msg.get('data', [])": a row whose conversion raises is logged
\* and skipped, every other row is handed to on_synoptic_observation
SynopticData(data, forwarded) ==
    IF data = <<>> THEN [forwarded |-> forwarded, raised |-> FALSE]
    ELSE LET r == SynopticRow(Head(data))
         IN  IF r.raised
             THEN SynopticData(Tail(data), forwarded)
             ELSE SynopticData(Tail(data), Append(forwarded, r.row))

\* one "data" frame handled by the read loop: an exception that leaves the
\* loop body takes the loop to "except Exception"
SynopticDataFrame ==
    /\ op_call.fn = "synoptic_data"
    /\ ~op_result.done
    /\ LET r == SynopticData(op_call.data, <<>>)
       IN  op_result' = [done |-> TRUE, forwarded |-> r.forwarded,
                      s_pc |-> IF r.raised THEN "sleep" ELSE "reading"]
    /\ UNCHANGED << op_call, outsideCalls >>

\* both execution managers' on_order_intent, on a book of 100 bids at 48c
\* and 50 bids at 47c on the yes side (implied no prices 52c and 53c)
SweepBooks ==
    { [yes |-> (48 :> 100) @@ (47 :> 50), no |-> EmptySide],
      [yes |-> (48 :> 100) @@ (47 :> 50), no |-> (5 :> 60)],
      [yes |-> (48 :> 10), no |-> (40 :> 100) @@ (30 :> 100)] }

SweepIntents ==
    { [ strategy_id     |-> "s1",
        market_ticker   |-> T1,
        side            |-> side,
        max_price_cents |-> mp,
        max_spend_cents |-> ms,
        paper_mode      |-> TRUE,
        station         |-> "KMDW1M",
        series          |-> "KXHIGHCHI",
        event_ticker    |-> E1 ] :
      side \in {"no", "yes"}, mp \in {52, 95}, ms \in {0, 60, 5000, 5200, 8000} }

\* _spent[key] left by earlier fills of the key
SweepSpent == {0, 8, 4992}

\* ExecutionManager(paper_mode=True) as constructed
PaperConfig ==
    ExecConfig([paper_mode |-> TRUE, starting_balance_cents |-> 100000,
                max_total_drawdown_cents |-> 0, max_allocation_per_series_cents |-> 0])

\* one OrderIntent handled by a BacktestExecutionManager whose key has
\* op_call.spent cents on its tally and by a freshly constructed paper
\* ExecutionManager, both holding op_call.book for the intent's ticker
OnOrderIntentCall ==
    /\ op_call.fn = "on_order_intent"
    /\ ~op_result.done
    /\ LET intent == op_call.intent
           obs    == SetBook([tk \in {} |-> EmptyBook], intent.market_ticker, op_call.book)
           spent  == [k \in Keys |-> IF k = KeyOf(intent) THEN op_call.spent ELSE 0]
           out    == BtOutcome(obs, spent, intent)
           cost   == TakesCost(out.takes)
           levels == AvailableLevels(op_call.book, intent.side)
           ex     == ExSweepLoop(levels, 1, intent, PaperConfig,
                                 PaperConfig.starting_balance, 0, <<>>)
       IN  op_result' =
               [done |-> TRUE,
                levels |-> levels,
                bt_takes |-> out.takes,
                bt_fills |-> IF TakesContracts(out.takes) > 0
                             THEN << BtFill(intent, out.takes, op_call.spent + cost) >>
                             ELSE <<>>,
                bt_spent |-> IF TakesContracts(out.takes) > 0
                             THEN op_call.spent + cost ELSE op_call.spent,
                ex_takes |-> ex,
                ex_trades |-> IF TakesContracts(ex) > 0
                              THEN << ExTradeRow(intent, ex,
                                         PaperConfig.starting_balance - TakesCost(ex),
                                         TakesCost(ex)) >>
                              ELSE <<>>]
    /\ UNCHANGED << op_call, outsideCalls >>

\* ExecutionManager._log_trade: the row is appended to the CSV file, then
\* handed to ParquetStorage.write_paper_trades; a write that fails raises
\* OSError, and a failed CSV write leaves _log_trade before the second write
LogTrade(row, csv_fails, parquet_fails) ==
    IF csv_fails
    THEN [csv |-> <<>>, parquet |-> <<>>, raised |-> TRUE]
    ELSE IF parquet_fails
    THEN [csv |-> << row >>, parquet |-> <<>>, raised |-> TRUE]
    ELSE [csv |-> << row >>, parquet |-> << row >>, raised |-> FALSE]

\* one OrderIntent handled by a paper ExecutionManager with empty sinks, up to
\* and including _log_trade
LogTradeCall ==
    /\ op_call.fn = "log_trade"
    /\ ~op_result.done
    /\ LET intent == op_call.intent
           levels == AvailableLevels(op_call.book, intent.side)
           takes  == ExSweepLoop(levels, 1, intent, PaperConfig,
                                 PaperConfig.starting_balance, 0, <<>>)
           cost   == TakesCost(takes)
           row    == ExTradeRow(intent, takes, PaperConfig.starting_balance - cost, cost)
           logged == IF TakesContracts(takes) > 0
                     THEN LogTrade(row, op_call.csv_fails, op_call.parquet_fails)
                     ELSE [csv |-> <<>>, parquet |-> <<>>, raised |-> FALSE]
       IN  op_result' = [done |-> TRUE,
                         filled |-> TakesContracts(takes),
                         paper_balance |-> PaperConfig.starting_balance - cost,
                         series_spent |-> cost,
                         csv |-> logged.csv,
                         parquet |-> logged.parquet,
                         raised |-> logged.raised]
    /\ UNCHANGED << op_call, outsideCalls >>

\* resolve_event_tickers followed by discover_markets, for one series
MaxEvents == 2

\* open events of the series as get_events_for_series returns them: times in
\* days since 2026-02-20, 0 for a missing close_time or strike_date
OpenEvents ==
    [event_ticker : {E1, E2, E6}, close_time : {0, 1, 2}, strike_date : {0, 1, 2}]

OpenEventLists ==
    { q \in UNION { [1..n -> OpenEvents] : n \in 0..MaxEvents } :
        \A i, j \in 1..Len(q) : i # j => q[i].event_ticker # q[j].event_ticker }

\* place of an event ticker in string order
TickerRank(event_ticker) ==
    CASE event_ticker = E1 -> 1
      [] event_ticker = E2 -> 2
      [] event_ticker = E6 -> 3

\* tuple order of (close_time or "", strike_date or "", event_ticker)
ActiveKeyLess(a, b) ==
    \/ a.close_time < b.close_time
    \/ a.close_time = b.close_time /\ a.strike_date < b.strike_date
    \/ a.close_time = b.close_time /\ a.strike_date = b.strike_date
           /\ TickerRank(a.event_ticker) < TickerRank(b.event_ticker)

\* tuple order of (strike_date, event_ticker)
NextKeyLess(a, b) ==
    \/ a.strike_date < b.strike_date
    \/ a.strike_date = b.strike_date
           /\ TickerRank(a.event_ticker) < TickerRank(b.event_ticker)

\* _select_event_for_series: {} for None, else the one chosen event ticker
SelectEventForSeries(events, strategy, today_local) ==
    LET all == { events[i] : i \in 1..Len(events) }
        candidates == { e \in all : e.strike_date # 0 /\ e.strike_date >= today_local }
    IN  IF events = <<>> THEN {}
        ELSE IF strategy = "next" /\ candidates # {}
        THEN { (CHOOSE e \in candidates :
                    \A o \in candidates \ {e} : NextKeyLess(e, o)).event_ticker }
        ELSE { (CHOOSE e \in all : \A o \in all \ {e} : ActiveKeyLess(e, o)).event_ticker }

\* resolve_event_tickers for event_series = [KXHIGHCHI] and no "events" override
ResolveEventTickers(events, strategy, today_local) ==
    IF events = <<>> THEN <<>>
    ELSE LET chosen == SelectEventForSeries(events, strategy, today_local)
         IN  IF chosen = {} THEN <<>> ELSE << CHOOSE e \in chosen : TRUE >>

\* get_markets_for_event: the contracts of an event
MarketsForEvent(event_ticker) ==
    CASE event_ticker = E1 -> << T1, T5 >>
      [] event_ticker = E2 -> << T2 >>
      [] event_ticker = E6 -> << T6 >>

RECURSIVE DiscoverMarkets(_)
\* discover_markets: the contracts of every event ticker, in order
DiscoverMarkets(event_tickers) ==
    IF event_tickers = <<>> THEN <<>>
    ELSE MarketsForEvent(Head(event_tickers)) \o DiscoverMarkets(Tail(event_tickers))

ResolveCall ==
    /\ op_call.fn = "resolve_event_tickers"
    /\ ~op_result.done
    /\ LET event_tickers == ResolveEventTickers(op_call.events, op_call.event_selection,
                                                op_call.today_local)
       IN  op_result' = [done |-> TRUE,
                         event_tickers |-> event_tickers,
                         market_tickers |-> DiscoverMarkets(event_tickers)]
    /\ UNCHANGED << op_call, outsideCalls >>

\* LadderStrategy.on_market_discovery on its own
MaxContracts == 3

\* contracts of a MarketDiscoveryEvent: T1 and T3 qualify, T5 has no
\* cap_strike, T4 is of a series that is no target, T6 carries the date token
\* 26FEB30
RebuildTickers == {T1, T3, T4, T5, T6}

RebuildEvents ==
    { [market_tickers |-> tks, market_info |-> InfoMap(RebuildTickers)] :
        tks \in { q \in UNION { [1..n -> RebuildTickers] : n \in 1..MaxContracts } :
                     \A i, j \in 1..Len(q) : i # j => q[i] # q[j] } }

\* the contract passes the two "continue" tests of the rebuild loop
Qualifies(info) ==
    info.cap_strike # {} /\ MatchSeries(info.event_ticker) # {}

\* the handler is left by the ValueError of a qualifying contract
RebuildRaises(ev) ==
    \E i \in 1..Len(ev.market_tickers) :
        /\ Qualifies(ev.market_info[ev.market_tickers[i]])
        /\ EventDateRaises(ev.market_info[ev.market_tickers[i]].event_ticker)

OnMarketDiscoveryCall ==
    /\ op_call.fn = "on_market_discovery"
    /\ ~op_result.done
    /\ op_result' = [done |-> TRUE,
                     ladder |-> BuildLadder(op_call.event, 1, <<>>),
                     raised |-> RebuildRaises(op_call.event)]
    /\ UNCHANGED << op_call, outsideCalls >>

\* ------------------------------------------------------------------------
\* The climate-day window (nws_observation_period, nws_window_utc)
\* ------------------------------------------------------------------------
\* Times are whole hours counted from 2026-01-01 00:00; every offset of the
\* zones below is a whole number of hours.

MonthMap ==
    [m \in {"JAN", "FEB", "MAR", "APR", "MAY", "JUN",
            "JUL", "AUG", "SEP", "OCT", "NOV", "DEC"} |->
        CASE m = "JAN" -> 1 [] m = "FEB" -> 2 [] m = "MAR" -> 3
          [] m = "APR" -> 4 [] m = "MAY" -> 5 [] m = "JUN" -> 6
          [] m = "JUL" -> 7 [] m = "AUG" -> 8 [] m = "SEP" -> 9
          [] m = "OCT" -> 10 [] m = "NOV" -> 11 [] m = "DEC" -> 12]

\* Date suffixes of event tickers, "26FEB21" as its three regex groups.
DateTokens ==
    { [yy |-> 26, mon |-> "JAN", dd |-> 1],
      [yy |-> 26, mon |-> "FEB", dd |-> 21],
      [yy |-> 26, mon |-> "MAR", dd |-> 8],
      [yy |-> 26, mon |-> "MAR", dd |-> 9],
      [yy |-> 26, mon |-> "JUL", dd |-> 4],
      [yy |-> 26, mon |-> "NOV", dd |-> 1],
      [yy |-> 26, mon |-> "NOV", dd |-> 2],
      [yy |-> 26, mon |-> "DEC", dd |-> 31] }

\* date(year, month, day)
Date(year, month, day) == [year |-> year, month |-> month, day |-> day]

ClimateDates == { Date(2000 + t.yy, MonthMap[t.mon], t.dd) : t \in DateTokens }

DaysBeforeMonth == << 0, 31, 59, 90, 120, 151, 181, 212, 243, 273, 304, 334 >>

\* Hours from 2026-01-01 00:00 to the wall-clock time hour:00 of date d.
WallHours(d, hour) == (DaysBeforeMonth[d.month] + d.day - 1) * 24 + hour

\* ZoneInfo(tz_name) and datetime(..., tzinfo=tz).utcoffset() for 2026:
\* US daylight time runs from 8 March 02:00 to 1 November 02:00, Arizona
\* has none, New South Wales has it until 5 April 03:00 and from 4 October
\* 02:00.
StandardOffset(tz_name) ==
    CASE tz_name = "America/New_York" -> -5
      [] tz_name = "America/Chicago" -> -6
      [] tz_name = "America/Denver" -> -7
      [] tz_name = "America/Phoenix" -> -7
      [] tz_name = "America/Los_Angeles" -> -8
      [] tz_name = "Australia/Sydney" -> 10

UtcOffset(tz_name, d, hour) ==
    LET w == WallHours(d, hour)
        dst == CASE tz_name = "America/Phoenix" -> FALSE
                 [] tz_name = "Australia/Sydney" ->
                        \/ w < WallHours(Date(2026, 4, 5), 3)
                        \/ w >= WallHours(Date(2026, 10, 4), 2)
                 [] OTHER ->
                        /\ w >= WallHours(Date(2026, 3, 8), 2)
                        /\ w < WallHours(Date(2026, 11, 1), 2)
    IN  StandardOffset(tz_name) + (IF dst THEN 1 ELSE 0)

\* MARKET_REGISTRY / KALSHI_MARKET_REGISTRY: series prefix -> tz
RegistrySeries ==
    { "KXHIGHCHI", "KXHIGHNY", "KXHIGHMIA", "KXHIGHDEN", "KXHIGHAUS",
      "KXHIGHHOU", "KXHIGHPHL", "KXHIGHATL", "KXHIGHBOS", "KXHIGHDCA",
      "KXHIGHDFW", "KXHIGHLAS", "KXHIGHLAX", "KXHIGHMSP", "KXHIGHMSY",
      "KXHIGHOKC", "KXHIGHPHX", "KXHIGHSAT", "KXHIGHSEA", "KXHIGHSFO" }

RegistryTz(series) ==
    CASE series \in {"KXHIGHNY", "KXHIGHMIA", "KXHIGHPHL", "KXHIGHATL",
                     "KXHIGHBOS", "KXHIGHDCA"} -> "America/New_York"
      [] series \in {"KXHIGHCHI", "KXHIGHAUS", "KXHIGHHOU", "KXHIGHDFW",
                     "KXHIGHMSP", "KXHIGHMSY", "KXHIGHOKC", "KXHIGHSAT"}
            -> "America/Chicago"
      [] series = "KXHIGHDEN" -> "America/Denver"
      [] series = "KXHIGHPHX" -> "America/Phoenix"
      [] series \in {"KXHIGHLAS", "KXHIGHLAX", "KXHIGHSEA", "KXHIGHSFO"}
            -> "America/Los_Angeles"

\* The window from midnight LST of event_date, with the offset read at noon
\* of winter_date.
WindowFrom(event_date, tz_name, winter_date) ==
    LET lst_utc_offset == UtcOffset(tz_name, winter_date, 12)
        nws_start_utc == WallHours(event_date, 0) - lst_utc_offset
    IN  [start_utc |-> nws_start_utc, end_utc |-> nws_start_utc + 24]

\* The same with the offset in force on the event date itself.
NwsObservationPeriodLocalTime(token, tz_name) ==
    LET event_date == Date(2000 + token.yy, MonthMap[token.mon], token.dd)
        nws_start_utc == WallHours(event_date, 0) - UtcOffset(tz_name, event_date, 0)
    IN  [start_utc |-> nws_start_utc, end_utc |-> nws_start_utc + 24]

\* nws_observation_period(event_ticker, tz_name), the ticker given by its
\* date suffix: always the January-15 offset.
NwsObservationPeriodForDate(token, tz_name) ==
    LET event_date == Date(2000 + token.yy, MonthMap[token.mon], token.dd)
    IN  WindowFrom(event_date, tz_name, Date(event_date.year, 1, 15))

\* nws_window_utc(climate_date, tz_name, lat)
NwsWindowUtc(climate_date, tz_name, lat) ==
    LET winter == IF lat # << >> /\ lat[1] < 0 THEN << 7, 15 >> ELSE << 1, 15 >>
    IN  WindowFrom(climate_date, tz_name,
                   Date(climate_date.year, winter[1], winter[2]))

\* Stations handed to the plateau analyzer: timezone and latitude (rounded
\* to whole degrees, << >> when the caller passes none).
AnalyzerStations ==
    { [tz |-> "America/Chicago", lat |-> << 42 >>],
      [tz |-> "America/New_York", lat |-> << >>],
      [tz |-> "America/Phoenix", lat |-> << 33 >>],
      [tz |-> "Australia/Sydney", lat |-> << -34 >>] }

NwsObservationPeriodCall ==
    /\ op_call.fn = "nws_observation_period"
    /\ ~op_result.done
    /\ op_result' = [done |-> TRUE,
                     window |-> NwsObservationPeriodForDate(
                                    op_call.token, RegistryTz(op_call.series))]
    /\ UNCHANGED << op_call, outsideCalls >>

NwsWindowUtcCall ==
    /\ op_call.fn = "nws_window_utc"
    /\ ~op_result.done
    /\ op_result' = [done |-> TRUE,
                     window |-> NwsWindowUtc(op_call.climate_date,
                                             op_call.station.tz,
                                             op_call.station.lat)]
    /\ UNCHANGED << op_call, outsideCalls >>

\* ------------------------------------------------------------------------
\* Loading bot.strategies (StrategyManager and BacktestEngine)
\* ------------------------------------------------------------------------
MaxDefs == 2

\* STRATEGY_CLASS_REGISTRY
StrategyClassRegistry == {"LadderStrategy"}

\* entries of bot.strategies: "" stands for a missing id or class_name;
\* params is a mapping ("dict") or null (NoneVal)
StrategyDefs ==
    [id : {"", "s1", "s2"}, class_name : {"", "LadderStrategy", "MeanReversion"},
     params : {"dict", NoneVal}]

StrategyDefLists ==
    UNION { [1..n -> StrategyDefs] : n \in 0..MaxDefs }

\* LadderStrategy.__init__ after super().__init__: params.get(...) raises
\* AttributeError when params is None
ConstructorRaises(sdef) == sdef.params = NoneVal

\* BaseStrategy.__init__: the instance built from definition i subscribes its
\* handlers before the subclass constructor goes on
Subscribe(loaded, i) == [loaded EXCEPT !.subscribed = Append(@, i)]

RECURSIVE LiveLoadStrategies(_, _, _)
\* StrategyManager._load_strategies, the loop over strategy_defs
LiveLoadStrategies(strategy_defs, i, loaded) ==
    IF i > Len(strategy_defs) THEN loaded
    ELSE LET sdef == strategy_defs[i]
         IN  IF sdef.id = "" \/ sdef.class_name = ""
             THEN LiveLoadStrategies(strategy_defs, i + 1, loaded)
             ELSE IF sdef.id \in DOMAIN loaded.strategies
             THEN LiveLoadStrategies(strategy_defs, i + 1, loaded)
             ELSE IF sdef.class_name \notin StrategyClassRegistry
             THEN LiveLoadStrategies(strategy_defs, i + 1, loaded)
             ELSE IF ConstructorRaises(sdef)
             THEN LiveLoadStrategies(strategy_defs, i + 1, Subscribe(loaded, i))
             ELSE LiveLoadStrategies(strategy_defs, i + 1,
                      [Subscribe(loaded, i) EXCEPT !.strategies =
                           [s \in DOMAIN @ \cup {sdef.id} |->
                               IF s = sdef.id THEN i ELSE @[s]]])

RECURSIVE BacktestLoadStrategies(_, _, _)
\* BacktestEngine._load_strategies with series_filter None: no test for a
\* repeated id, no try around the constructor
BacktestLoadStrategies(strategy_defs, i, loaded) ==
    IF i > Len(strategy_defs) THEN loaded
    ELSE LET sdef == strategy_defs[i]
         IN  IF sdef.id = "" \/ sdef.class_name = ""
             THEN BacktestLoadStrategies(strategy_defs, i + 1, loaded)
             ELSE IF sdef.class_name \notin StrategyClassRegistry
             THEN BacktestLoadStrategies(strategy_defs, i + 1, loaded)
             ELSE IF ConstructorRaises(sdef)
             THEN [Subscribe(loaded, i) EXCEPT !.raised = TRUE]
             ELSE BacktestLoadStrategies(strategy_defs, i + 1,
                      [Subscribe(loaded, i) EXCEPT !.strategies =
                           [s \in DOMAIN @ \cup {sdef.id} |->
                               IF s = sdef.id THEN i ELSE @[s]]])

\* no strategy loaded, nothing subscribed
NothingLoaded == [strategies |-> << >>, subscribed |-> << >>, raised |-> FALSE]

LoadStrategiesCall ==
    /\ op_call.fn = "load_strategies"
    /\ ~op_result.done
    /\ op_result' = [done |-> TRUE,
                     live |-> LiveLoadStrategies(op_call.strategy_defs, 1, NothingLoaded),
                     backtest |-> BacktestLoadStrategies(op_call.strategy_defs, 1,
                                                         NothingLoaded)]
    /\ UNCHANGED << op_call, outsideCalls >>

CallInputs ==
    [fn : {"synoptic_data"}, data : DataFrames]
        \cup [fn : {"on_market_discovery"}, event : RebuildEvents]
        \cup [fn : {"log_trade"}, book : SweepBooks,
              intent : { i \in SweepIntents : i.max_spend_cents = 0 },
              csv_fails : BOOLEAN, parquet_fails : BOOLEAN]
        \cup [fn : {"resolve_event_tickers"}, events : OpenEventLists,
              event_selection : {"active", "next", "consecutive"},
              today_local : {1, 2}]
        \cup [fn : {"on_order_intent"}, book : SweepBooks, intent : SweepIntents,
              spent : SweepSpent]
        \cup [fn : {"nws_observation_period"}, series : RegistrySeries,
              token : DateTokens]
        \cup [fn : {"nws_window_utc"}, climate_date : ClimateDates,
              station : AnalyzerStations]
        \cup [fn : {"load_strategies"}, strategy_defs : StrategyDefLists]

InitCall == op_call \in CallInputs /\ op_result = NotReturned

NextCalls ==
    \/ SynopticDataFrame
    \/ OnOrderIntentCall
    \/ OnMarketDiscoveryCall
    \/ ResolveCall
    \/ LogTradeCall
    \/ NwsObservationPeriodCall
    \/ NwsWindowUtcCall
    \/ LoadStrategiesCall

InitSpecCalls == IdleExec /\ IdleLadder /\ InitOB /\ InitPipe /\ IdleBus /\ InitTimeline /\ IdleRun /\ InitWs /\ InitCall /\ IdleCollector

SpecCalls == InitSpecCalls /\ [][NextCalls]_vars

InitSpecCollector == IdleExec /\ IdleLadder /\ InitOB /\ InitPipe /\ IdleBus /\ InitTimeline /\ IdleRun /\ InitWs /\ IdleCall /\ InitCollector

SpecCollector == InitSpecCollector /\ [][NextCollector]_vars

\* ------------------------------------------------------------------------
\* ExecutionManager in real mode: the guardrails over a run of intents
\* ------------------------------------------------------------------------
MaxLiveIntents == 3

\* bot.paper_mode false with execution_guardrails (0 = disabled)
LiveConfigs ==
    [ paper_mode : {FALSE}, starting_balance_cents : {300},
      max_total_drawdown_cents : {0, 100, 200},
      max_allocation_per_series_cents : {0, 150} ]

\* the series two strategies trade, one contract each
LiveSeries == {"KXHIGHCHI", "KXHIGHNY"}

LiveDiscoveryEvent == [market_tickers |-> <<T1, T3>>, market_info |-> InfoMap({T1, T3})]

\* OrderIntents of two strategies on the two series
LiveIntents ==
    { [ strategy_id     |-> sid,
        market_ticker   |-> tk,
        side            |-> "no",
        max_price_cents |-> 95,
        max_spend_cents |-> 0,
        paper_mode      |-> FALSE,
        station         |-> IF tk = T1 THEN "KMDW1M" ELSE "KNYC1M",
        series          |-> IF tk = T1 THEN "KXHIGHCHI" ELSE "KXHIGHNY",
        event_ticker    |-> InfoOf(tk).event_ticker ] :
      sid \in {"s1", StrategyId}, tk \in {T1, T3} }

\* OrderbookUpdateEvent payloads: "no" costs 52c (2) and 53c (1), or 40c (1)
LiveBooks ==
    { [yes |-> SideA, no |-> SideB],
      [yes |-> (60 :> 1), no |-> EmptySide] }

InitLive ==
    /\ bt_orderbooks = [tk \in {} |-> EmptyBook]
    /\ bt_market_info = [tk \in {} |-> InfoOf(tk)]
    /\ bt_spent = [k \in Keys |-> 0]
    /\ bt_fills = <<>>
    /\ bt_sweep = NoSweep
    /\ ex_cfg \in {ExecConfig(c) : c \in LiveConfigs}
    /\ ex_orderbooks = [tk \in {} |-> EmptyBook]
    /\ ex_market_info = [tk \in {} |-> InfoOf(tk)]
    /\ paper_balance = ex_cfg.starting_balance
    /\ series_spent = [s \in LiveSeries |-> 0]
    /\ halted = FALSE
    /\ ex_trades = <<>>
    /\ ex_sweep = NoSweep
    /\ intent_log = [k \in Keys |-> <<>>]
    /\ nIntents = 0

btVars == << bt_orderbooks, bt_market_info, bt_spent, bt_fills, bt_sweep >>

LiveMarketDiscovery ==
    /\ ExOnMarketDiscovery(LiveDiscoveryEvent)
    /\ UNCHANGED << btVars, intent_log, nIntents, outsideExec >>

LiveOrderbookUpdate ==
    \E tk \in {T1, T3}, book \in LiveBooks :
        /\ tk \in DOMAIN ex_orderbooks
        /\ ExOnOrderbookUpdate(tk, book)
        /\ UNCHANGED << btVars, intent_log, nIntents, outsideExec >>

LiveOrderIntent ==
    \E intent \in LiveIntents :
        /\ nIntents < MaxLiveIntents
        /\ ExOnOrderIntent(intent)
        /\ nIntents' = nIntents + 1
        /\ UNCHANGED << btVars, intent_log, outsideExec >>

NextLive ==
    \/ LiveMarketDiscovery
    \/ LiveOrderbookUpdate
    \/ LiveOrderIntent

InitSpecLive == InitLive /\ IdleLadder /\ InitOB /\ InitPipe /\ IdleBus /\ InitTimeline /\ IdleRun /\ InitWs /\ IdleCall /\ IdleCollector

SpecLive == InitSpecLive /\ [][NextLive]_vars

\* ------------------------------------------------------------------------
\* C21
\* ------------------------------------------------------------------------
WellFormedRow(d) == d.date = ParsableDate /\ d.value = NumericValue

\* C21: of the rows of a data frame, those with a non-numeric value or an
\* unparsable date are not forwarded, every other row is forwarded to
\* on_synoptic_observation exactly once and in frame order, and the read loop
\* keeps reading on the same connection.
C21_BadRowsDropped ==
    (op_call.fn = "synoptic_data" /\ op_result.done) =>
        LET good == SelectSeq(op_call.data, WellFormedRow)
        IN  /\ Len(op_result.forwarded) = Len(good)
            /\ \A i \in 1..Len(good) :
                  /\ op_result.forwarded[i].stid = good[i].stid
                  /\ op_result.forwarded[i].value = 42
                  /\ op_result.forwarded[i].ob_timestamp = 5
            /\ op_result.s_pc = "reading"

\* a frame whose first row has a non-numeric value and whose last row has an
\* unparsable date was handled, and the row between them
\* was forwarded
C21_Witness ==
    /\ op_call.fn = "synoptic_data"
    /\ op_result.done
    /\ Len(op_call.data) = 3
    /\ op_call.data[1].value = "M"
    /\ op_call.data[1].date = ParsableDate
    /\ WellFormedRow(op_call.data[2])
    /\ op_call.data[3].date # ParsableDate
    /\ op_call.data[3].value = NumericValue
    /\ Len(op_result.forwarded) = 1
    /\ op_result.forwarded[1].stid = op_call.data[2].stid

\* ------------------------------------------------------------------------
\* C22
\* ------------------------------------------------------------------------
\* C22 (as claimed): while running, a connection that fails to open, is lost,
\* or is closed cleanly by the peer takes its loop to the backoff sleep; the
\* loop is never back at the top of "while self._running" without sleeping.
C22_BackoffBeforeReconnect ==
    [][ /\ (running /\ ~k_reconnect /\ k_pc = "reading" /\ k_ws = "open"
               /\ k_pc' # "reading") => k_pc' = "sleep"
        /\ (running /\ k_pc = "connecting" /\ k_pc' \notin {"connecting", "reading"})
               => k_pc' = "sleep"
        /\ (running /\ s_pc = "reading" /\ s_pc' # "reading") => s_pc' = "sleep"
        /\ (running /\ s_pc = "connecting" /\ s_pc' \notin {"connecting", "reading"})
               => s_pc' = "sleep" ]_vars

\* ------------------------------------------------------------------------
\* C23, C24
\* ------------------------------------------------------------------------
\* the prices a [price, qty] list names
ListedPrices(levels) == { levels[i][1] : i \in 1..Len(levels) }

\* the quantity of the last entry of the list that names price p
LastQty(levels, p) ==
    levels[CHOOSE i \in 1..Len(levels) :
               /\ levels[i][1] = p
               /\ \A j \in (i + 1)..Len(levels) : levels[j][1] # p][2]

\* C23: after apply_orderbook_snapshot for ticker T the stored book of T holds
\* on each side exactly the levels of the snapshot (no earlier level is
\* left), and the books of all other tickers are as they were.
C23_SnapshotReplaces ==
    [][ (nMsgs' = nMsgs + 1 /\ last_msg'.type = "orderbook_snapshot") =>
            LET data == last_msg'.msg
                tk   == data.market_ticker
            IN  /\ DOMAIN orderbooks' = DOMAIN orderbooks \cup {tk}
                /\ \A side \in {"yes", "no"} :
                      /\ DOMAIN orderbooks'[tk][side] = ListedPrices(data[side])
                      /\ \A p \in ListedPrices(data[side]) :
                            orderbooks'[tk][side][p] = LastQty(data[side], p)
                /\ \A o \in DOMAIN orderbooks \ {tk} : orderbooks'[o] = orderbooks[o] ]_vars

\* a snapshot with one level on the yes side and none on the no side has
\* replaced the book of T1 after two earlier messages, while T2 keeps levels
\* of its own
C23_Witness ==
    /\ nMsgs = 3
    /\ last_msg.type = "orderbook_snapshot"
    /\ last_msg.msg.market_ticker = T1
    /\ last_msg.msg.yes = << <<48, 0>> >>
    /\ last_msg.msg.no = <<>>
    /\ T1 \in DOMAIN orderbooks
    /\ DOMAIN orderbooks[T1].yes = {48}
    /\ DOMAIN orderbooks[T1].no = {}
    /\ T2 \in DOMAIN orderbooks
    /\ DOMAIN orderbooks[T2].yes = {47, 49}

\* C24: apply_orderbook_delta on a ticker that has a book takes the entries
\* of each side in arrival order: an entry with qty <= 0 removes its price
\* (nothing happens if it is absent), an entry with qty > 0 sets its price to
\* qty whatever was stored; prices the delta does not name, and other
\* tickers, are unchanged.
C24_DeltaInOrder ==
    [][ (/\ nMsgs' = nMsgs + 1
         /\ last_msg'.type = "orderbook_delta"
         /\ last_msg'.msg.market_ticker \in DOMAIN orderbooks) =>
            LET data == last_msg'.msg
                tk   == data.market_ticker
            IN  /\ DOMAIN orderbooks' = DOMAIN orderbooks
                /\ \A side \in {"yes", "no"} :
                      LET old == orderbooks[tk][side]
                          new == orderbooks'[tk][side]
                          named == ListedPrices(data[side])
                      IN  /\ \A p \in named :
                                IF LastQty(data[side], p) <= 0
                                THEN p \notin DOMAIN new
                                ELSE p \in DOMAIN new /\ new[p] = LastQty(data[side], p)
                          /\ DOMAIN new \ named = DOMAIN old \ named
                          /\ \A p \in DOMAIN old \ named : new[p] = old[p]
                /\ \A o \in DOMAIN orderbooks \ {tk} : orderbooks'[o] = orderbooks[o] ]_vars

\* a delta that sets 48, sets 49 and then removes 48 was applied to a book of
\* T1 that kept its level at 47
C24_Witness ==
    /\ nMsgs >= 2
    /\ last_msg.type = "orderbook_delta"
    /\ last_msg.msg.market_ticker = T1
    /\ last_msg.msg.yes = << <<48, 5>>, <<49, 1>>, <<48, 0>> >>
    /\ T1 \in DOMAIN orderbooks
    /\ DOMAIN orderbooks[T1].yes = {47, 49}
    /\ orderbooks[T1].yes[49] = 1

\* ------------------------------------------------------------------------
\* C25
\* ------------------------------------------------------------------------
\* the intent names a ticker without a stored book, or the side it buys
\* against holds no quantity at an implied price within max_price_cents
NothingFillable(obs, intent) ==
    \/ intent.market_ticker \notin DOMAIN obs
    \/ LET opp == OppositeSide(obs[intent.market_ticker], intent.side)
       IN  \A p \in DOMAIN opp : opp[p] > 0 => 100 - p > intent.max_price_cents

\* C25: an OrderIntent for a ticker with no local orderbook, or whose
\* opposite side is empty or has nothing at or below max_price_cents, records
\* no fill and leaves the spend tallies, the balance and every orderbook of
\* the manager as they were.
C25_NoFillNoChange ==
    [][ nIntents' = nIntents + 1 =>
            /\ NothingFillable(bt_orderbooks, bt_sweep'.intent) =>
                  /\ bt_fills' = bt_fills
                  /\ bt_spent' = bt_spent
                  /\ bt_orderbooks' = bt_orderbooks
            /\ NothingFillable(ex_orderbooks, ex_sweep'.intent) =>
                  /\ ex_trades' = ex_trades
                  /\ series_spent' = series_spent
                  /\ paper_balance' = paper_balance
                  /\ ex_orderbooks' = ex_orderbooks ]_vars

\* two intents were handled without a fill; the second one met a book whose
\* only quantity on the opposite side is priced above its max_price_cents
C25_Witness ==
    /\ nIntents = 2
    /\ bt_fills = <<>>
    /\ ex_trades = <<>>
    /\ bt_sweep.intent \in IntentSet
    /\ bt_sweep.intent.market_ticker \in DOMAIN bt_orderbooks
    /\ bt_sweep.intent.side = "no"
    /\ bt_sweep.intent.max_price_cents = 52
    /\ bt_orderbooks[bt_sweep.intent.market_ticker].yes = SideZ
    /\ ex_orderbooks[bt_sweep.intent.market_ticker].yes = SideZ

\* ------------------------------------------------------------------------
\* C26
\* ------------------------------------------------------------------------
RECURSIVE CappedTakes(_, _, _, _)
\* the quantities the rule of C26 takes from levels i.. : at each level
\* within max_price, min(level quantity, floor(remaining / price))
CappedTakes(levels, i, max_price, remaining) ==
    IF i > Len(levels) \/ levels[i].price > max_price THEN <<>>
    ELSE LET q == Max(0, Min(levels[i].qty, remaining \div levels[i].price))
         IN  <<q>> \o CappedTakes(levels, i + 1, max_price,
                                  remaining - q * levels[i].price)

\* the contracts and the cost the rule of C26 gives a capped intent
CappedContracts(levels, intent, spent) ==
    SeqSum(CappedTakes(levels, 1, intent.max_price_cents,
                       Max(0, intent.max_spend_cents - spent)))

CappedCost(levels, intent, spent) ==
    LET takes == CappedTakes(levels, 1, intent.max_price_cents,
                             Max(0, intent.max_spend_cents - spent))
    IN  SeqSum([i \in 1..Len(takes) |-> takes[i] * levels[i].price])

\* the worked example: implied levels 52c x 100 and 53c x 50, max_price_cents
\* 95, max_spend_cents 5000, nothing spent
SweepExample ==
    /\ op_call.book.yes = (48 :> 100) @@ (47 :> 50)
    /\ op_call.intent.side = "no"
    /\ op_call.intent.max_price_cents = 95
    /\ op_call.intent.max_spend_cents = 5000
    /\ op_call.spent = 0

\* C26 (as claimed): under a cap each execution manager takes, level by level
\* in ascending price, min(level quantity, floor(remaining budget / price))
\* contracts, the remaining budget being max_spend_cents less the key's spend
\* less the cost taken so far in the sweep; in the worked example the result
\* is one fill of 96 contracts for 4992 cents and the key's spend becomes 4992.
C26_CappedSweep ==
    (op_call.fn = "on_order_intent" /\ op_result.done
        /\ op_call.intent.max_spend_cents > 0) =>
        LET want_n == CappedContracts(op_result.levels, op_call.intent, op_call.spent)
            want_c == CappedCost(op_result.levels, op_call.intent, op_call.spent)
        IN  /\ TakesContracts(op_result.bt_takes) = want_n
            /\ TakesCost(op_result.bt_takes) = want_c
            /\ op_result.bt_spent = op_call.spent + want_c
            /\ TakesContracts(op_result.ex_takes) = want_n
            /\ TakesCost(op_result.ex_takes) = want_c
            /\ SweepExample =>
                  /\ Len(op_result.bt_fills) = 1
                  /\ op_result.bt_fills[1].contracts_filled = 96
                  /\ op_result.bt_fills[1].total_cost_cents = 4992
                  /\ op_result.bt_spent = 4992
                  /\ Len(op_result.ex_trades) = 1
                  /\ op_result.ex_trades[1].contracts_filled = 96
                  /\ op_result.ex_trades[1].total_cost_cents = 4992

\* ------------------------------------------------------------------------
\* C27
\* ------------------------------------------------------------------------
\* C27 (as claimed): in a ladder rebuild a contract without cap_strike, of no
\* target series, or with a date token that names no calendar day is left
\* out, and every other contract of the event that has a cap_strike and
\* belongs to a target series is in the ladder with executed = false.
C27_OnlyBadContractDropped ==
    (op_call.fn = "on_market_discovery" /\ op_result.done) =>
        LET ev == op_call.event
            good == { tk \in { ev.market_tickers[i] : i \in 1..Len(ev.market_tickers) } :
                        /\ Qualifies(ev.market_info[tk])
                        /\ ~EventDateRaises(ev.market_info[tk].event_ticker) }
        IN  /\ { op_result.ladder[i].ticker : i \in 1..Len(op_result.ladder) } = good
            /\ \A i \in 1..Len(op_result.ladder) : ~op_result.ladder[i].executed

\* ------------------------------------------------------------------------
\* C28
\* ------------------------------------------------------------------------
\* C28: a rediscovery cycle touches the reconnect flag or schedules the close
\* of the exchange connection only if the set of tickers it resolved differs
\* from the set of market_tickers; a cycle that resolved the same set leaves
\* the connection, the subscription list and the orderbooks as they were.
C28_ReconnectOnlyOnChange ==
    [][ (r_pc = "sleeping" /\ r_pc' = "top") =>
            /\ (k_reconnect' # k_reconnect \/ k_close_task' # k_close_task
                    \/ k_pending' # k_pending) =>
                  { r_tickers'[i] : i \in 1..Len(r_tickers') } #
                      { market_tickers[i] : i \in 1..Len(market_tickers) }
            /\ (r_last' \notin RestFailures
                    /\ { r_tickers'[i] : i \in 1..Len(r_tickers') } =
                           { market_tickers[i] : i \in 1..Len(market_tickers) }) =>
                  /\ UNCHANGED << k_reconnect, k_close_task, k_ws, k_frame, k_local >>
                  /\ UNCHANGED << kalshi_subscribe_tickers, market_tickers, orderbooks,
                                  wb_ladder >> ]_vars

\* a cycle resolved the tracked set again while the exchange connection was
\* open and an orderbook held levels
C28_Witness ==
    /\ r_pc = "top"
    /\ r_last = "unchanged"
    /\ r_tickers # <<>>
    /\ { r_tickers[i] : i \in 1..Len(r_tickers) } =
           { market_tickers[i] : i \in 1..Len(market_tickers) }
    /\ k_ws = "open"
    /\ k_pc = "reading"
    /\ ~k_reconnect
    /\ \E tk \in DOMAIN orderbooks : orderbooks[tk] # EmptyBook

\* ------------------------------------------------------------------------
\* C29
\* ------------------------------------------------------------------------
\* the open events that at most one other open event precedes in
\* (close_time, strike_date, event_ticker) order
FirstTwo(events) ==
    LET all == { events[i] : i \in 1..Len(events) }
    IN  { e \in all : Cardinality({ o \in all : ActiveKeyLess(o, e) }) <= 1 }

\* C29 (as claimed): with event_selection = consecutive, discovery selects
\* for the series the first two open events in (close_time, strike_date,
\* event_ticker) order, and the contracts of both are tracked.
C29_ConsecutiveTakesTwo ==
    (op_call.fn = "resolve_event_tickers" /\ op_result.done
        /\ op_call.event_selection = "consecutive") =>
        /\ { op_result.event_tickers[i] : i \in 1..Len(op_result.event_tickers) } =
               { e.event_ticker : e \in FirstTwo(op_call.events) }
        /\ \A e \in FirstTwo(op_call.events) :
               \A i \in 1..Len(MarketsForEvent(e.event_ticker)) :
                   \E j \in 1..Len(op_result.market_tickers) :
                       op_result.market_tickers[j] = MarketsForEvent(e.event_ticker)[i]

\* ------------------------------------------------------------------------
\* C30
\* ------------------------------------------------------------------------
\* C30 (as claimed): after a fill the CSV log and the parquet store hold the
\* same record, also when the second write failed. (ExecutionManager keeps
\* no copy of a row for a later retry, so a row missing from a sink stays
\* missing.)
C30_BothSinksOrNeither ==
    (op_call.fn = "log_trade" /\ op_result.done /\ op_result.filled > 0) =>
        op_result.csv = op_result.parquet

\* ------------------------------------------------------------------------
\* C31
\* ------------------------------------------------------------------------
\* The event date a call is about, and the timezone and the winter date the
\* claim names for it.
WindowDate ==
    IF op_call.fn = "nws_observation_period"
    THEN Date(2000 + op_call.token.yy, MonthMap[op_call.token.mon], op_call.token.dd)
    ELSE op_call.climate_date

WindowTz ==
    IF op_call.fn = "nws_observation_period"
    THEN RegistryTz(op_call.series)
    ELSE op_call.station.tz

WindowWinterOffset ==
    IF op_call.fn = "nws_window_utc" /\ op_call.station.lat # << >>
           /\ op_call.station.lat[1] < 0
    THEN UtcOffset(WindowTz, Date(2026, 7, 15), 12)
    ELSE UtcOffset(WindowTz, Date(2026, 1, 15), 12)

\* C31: for every registry series and every event date, daylight-saving
\* dates included, the observation window is 24 h long and starts at
\* midnight of the event date minus the station's January-15 UTC offset
\* (July-15 offset for a station with latitude < 0).
C31_WindowIsLST ==
    (op_call.fn \in {"nws_observation_period", "nws_window_utc"} /\ op_result.done) =>
        /\ op_result.window.end_utc - op_result.window.start_utc = 24
        /\ op_result.window.start_utc = WallHours(WindowDate, 0) - WindowWinterOffset
        /\ WindowWinterOffset = StandardOffset(WindowTz)

\* A window computed for a date on which daylight-saving time is in effect.
C31_Witness ==
    /\ op_call.fn = "nws_observation_period"
    /\ op_result.done
    /\ UtcOffset(WindowTz, WindowDate, 0) # StandardOffset(WindowTz)
    /\ op_result.window.start_utc = WallHours(WindowDate, 0) - StandardOffset(WindowTz)

\* ------------------------------------------------------------------------
\* C32
\* ------------------------------------------------------------------------
\* No two entries of a sequence of intents or fills name the same
\* (strategy_id, market_ticker).
OncePerContract(records) ==
    \A i, j \in 1..Len(records) :
        (records[i].strategy_id = records[j].strategy_id
            /\ records[i].market_ticker = records[j].market_ticker) => i = j

\* C32 (as claimed): over the whole session, rediscovery cycles that return
\* the same contract included, at most one OrderIntent is published and at
\* most one fill is recorded for each (strategy_id, market_ticker).
C32_TradedOncePerContract ==
    OncePerContract(published) /\ OncePerContract(bt_fills)

\* ------------------------------------------------------------------------
\* C33
\* ------------------------------------------------------------------------
\* Arrival number of the observation whose handler published intent n.
TriggeringEvent(n) == (CHOOSE o \in bus_origin : o.intent = n).event

\* C33 (as claimed): under either bus, when the execution manager executes
\* an OrderIntent it has applied no orderbook update that arrived after the
\* observation that triggered the intent.
C33_IntentSeesBookAtTrigger ==
    \A p \in 1..Len(bus_calls) :
        bus_calls[p].handler = "ex.on_order_intent" =>
            \A q \in 1..(p - 1) :
                bus_calls[q].handler = "ex.on_orderbook_update" =>
                    bus_calls[q].id < TriggeringEvent(bus_calls[p].id)

\* ------------------------------------------------------------------------
\* C34
\* ------------------------------------------------------------------------
\* C34 (as claimed): in the backtest, once the publish of a weather event
\* has returned, every OrderIntent a strategy published from inside its
\* handler has been run through ex.on_order_intent.
C34_NestedIntentRunsInsidePublish ==
    bus_kind = "SyncEventBus" =>
        \A i \in 1..Len(bus_pub) :
            bus_pub[i].type = "OrderIntent" =>
                \E p \in 1..Len(bus_calls) :
                    /\ bus_calls[p].handler = "ex.on_order_intent"
                    /\ bus_calls[p].id = bus_pub[i].id

\* ------------------------------------------------------------------------
\* C35
\* ------------------------------------------------------------------------
\* The rows a full snapshot of the books taken at snapshot k would hold.
BookRowsAt(k) ==
    { [snapshot_ts |-> r.snapshot_ts, market_ticker |-> r.market_ticker,
       side |-> r.side, price_cents |-> r.price_cents, quantity |-> r.quantity] :
      r \in SnapshotRows(k, TRUE, lc_taken[k].books, << >>, << >>) }

\* C35 (as claimed): with no depth trimming, replaying the stored baseline
\* and delta rows gives, at every snapshot timestamp that has stored rows
\* and for every ticker, exactly the collector's in-memory book (its levels
\* with qty > 0) at that snapshot, also for a ticker whose book was empty
\* when a baseline was written.
C35_ReplayEqualsBook ==
    \A k \in 1..Len(lc_taken) :
        (\E r \in lc_ob_rows : r.snapshot_ts = k) =>
            { r \in ReconstructOrderbooks(lc_ob_rows) : r.snapshot_ts = k } = BookRowsAt(k)

\* ------------------------------------------------------------------------
\* C36
\* ------------------------------------------------------------------------
\* C36 (as claimed): with no series filter, the backtest loader subscribes
\* to its bus exactly the instances the live loader subscribes to its own,
\* built from the same definitions in the same order, and subscribes none
\* built from a definition the live loader skips.
C36_SameStrategiesLoaded ==
    (op_call.fn = "load_strategies" /\ op_result.done) =>
        /\ op_result.backtest.subscribed = op_result.live.subscribed
        /\ \A k \in 1..Len(op_result.backtest.subscribed) :
               \E id \in DOMAIN op_result.live.strategies :
                   op_result.live.strategies[id] = op_result.backtest.subscribed[k]

\* ------------------------------------------------------------------------
\* C37: the backtest's spend tally
\* ------------------------------------------------------------------------
\* the tally of key k right after the i-th recorded fill
TallyAfter(i, k) == SumFills(SubSeq(bt_fills, 1, i), k)

\* C37: for every (strategy_id, event_ticker) the backtest's spend tally equals
\* the sum of total_cost_cents over the fills recorded for that pair, every
\* fill's strategy_event_spent_cents is the tally of its pair right after that
\* fill, and no step lowers a tally.
C37_TallyIsSumOfFills ==
    /\ [](\A k \in Keys : bt_spent[k] = SumFills(bt_fills, k))
    /\ [](\A i \in 1..Len(bt_fills) :
             bt_fills[i].strategy_event_spent_cents
                 = TallyAfter(i, << bt_fills[i].strategy_id, bt_fills[i].event_ticker >>))
    /\ [][\A k \in Keys : bt_spent'[k] >= bt_spent[k]]_vars

\* two fills recorded for one pair: the second carries the sum of both costs,
\* which is also the pair's tally
C37_Witness ==
    \E i, j \in 1..Len(bt_fills) :
        /\ i < j
        /\ KeyOf(bt_fills[i]) = KeyOf(bt_fills[j])
        /\ bt_fills[j].strategy_event_spent_cents
               = bt_fills[i].total_cost_cents + bt_fills[j].total_cost_cents
        /\ bt_fills[i].total_cost_cents > 0
        /\ bt_spent[KeyOf(bt_fills[j])] = bt_fills[j].strategy_event_spent_cents

\* ------------------------------------------------------------------------
\* C38, C39: the real-mode guardrails
\* ------------------------------------------------------------------------
RECURSIVE SumTrades(_, _)
\* sum of total_cost_cents over the logged trades of series s
SumTrades(trades, s) ==
    IF trades = <<>> THEN 0
    ELSE (IF Head(trades).series = s THEN Head(trades).total_cost_cents ELSE 0)
             + SumTrades(Tail(trades), s)

\* C38: in real mode with max_total_drawdown_cents = D > 0 the cumulative
\* spend starting_balance - paper_balance never exceeds D, and paper_balance
\* is never negative.
C38_SpendWithinDrawdown ==
    /\ paper_balance >= 0
    /\ (~ex_cfg.paper_mode /\ ex_cfg.max_total_drawdown > 0)
           => ex_cfg.starting_balance - paper_balance <= ex_cfg.max_total_drawdown

\* the part of C38 the code keeps: the balance is never negative and equals
\* the starting balance less the cost of the logged trades
C38_BalanceNeverNegative ==
    /\ paper_balance >= 0
    /\ paper_balance
           = ex_cfg.starting_balance
               - SeqSum([i \in 1..Len(ex_trades) |-> ex_trades[i].total_cost_cents])

\* C39: in real mode with max_allocation_per_series_cents = M > 0 the cost of
\* the trades of any one series, which is the manager's tally for the series,
\* never exceeds M, whichever strategies sent the intents.
C39_SeriesWithinAllocation ==
    (~ex_cfg.paper_mode /\ ex_cfg.max_allocation_per_series > 0)
        => \A s \in LiveSeries :
               /\ SumTrades(ex_trades, s) <= ex_cfg.max_allocation_per_series
               /\ series_spent[s] = SumTrades(ex_trades, s)

\* intents of two strategies were filled on one series, and the last sweep was
\* cut by the allocation: a bid within the price bound and the balance was left
\* because one more contract would cross M
C39_Witness ==
    /\ ~ex_cfg.paper_mode
    /\ ex_cfg.max_allocation_per_series > 0
    /\ \E i, j \in 1..Len(ex_trades) :
           /\ ex_trades[i].series = ex_trades[j].series
           /\ ex_trades[i].strategy_id # ex_trades[j].strategy_id
    /\ ex_sweep.takes # <<>>
    /\ \E k \in 1..Len(ex_sweep.levels) :
           /\ ex_sweep.levels[k].price <= ex_sweep.intent.max_price_cents
           /\ ex_sweep.levels[k].price <= paper_balance
           /\ series_spent[ex_sweep.intent.series] + ex_sweep.levels[k].price
                  > ex_cfg.max_allocation_per_series
           /\ TakesContracts(ex_sweep.takes)
                  < SeqSum([n \in 1..Len(ex_sweep.levels) |-> ex_sweep.levels[n].qty])
====
